---------------------------- MODULE Spec2Model ----------------------------
(***************************************************************************)
(* Model of the validation-schema compiler and resolver of nium-copilot:   *)
(*   scripts/ingest_validation_sheet.py  (Schema Builder)                  *)
(*   app/validator.py                    (Selector, Payload Validator)     *)
(*   app/schema_lookup.py                (Corridor Index and Resolver)     *)
(*                                                                         *)
(* Texts the code cuts up (field paths, allowed values, payload strings,   *)
(* queries, country names) are sequences of one-character strings; texts   *)
(* it only compares or normalises are TLA+ strings.  A Python dict is a    *)
(* function; where the code depends on insertion order the keys are kept   *)
(* in a sequence beside it.  An absent optional key is None, 0 (lengths)   *)
(* or <<>> (enum, description, required, properties).                      *)
(***************************************************************************)
EXTENDS Integers, Sequences, FiniteSets, TLC

VARIABLES
    corridors,   \* build_schemas: (currency, country) -> method -> channel -> schema
    nrows,       \* build_schemas: number of rows of the frame folded so far
    declared,    \* history: <<corridor, method, channel, path>> folded as mandatory
    final,       \* build_schemas: whether it returned, and the documents it returned
    disk,        \* SCHEMA_DIR: file key "CUR_COUNTRY" -> schema document
    index,       \* schema_lookup: the cached Corridor Index, once built
    request,     \* the arguments of the last query-time call
    response,    \* the value that call returned
    COLOR_STATE_MAP,  \* ingest_validation_sheet: the module-level legend colour -> state
    workbooks,   \* the workbooks given to ingest: their legend and their sheets
    ingests,     \* the runs of ingest: position and local variables of each
    callers,     \* the calls in flight: position and locals of each
    conversations  \* ConversationStore._conversations: client id -> dict, and the dicts

vars == <<corridors, nrows, declared, final, disk, index, request, response,
          COLOR_STATE_MAP, workbooks, ingests, callers, conversations>>

\* The state of the runs of ingest
ingestVars == <<COLOR_STATE_MAP, workbooks, ingests>>

\* The state of one run of build_schemas
buildVars == <<corridors, nrows, declared, final>>

None == "NONE"

EmptyMap == [x \in {} |-> None]

Put(f, k, v) == [x \in (DOMAIN f) \cup {k} |-> IF x = k THEN v ELSE f[x]]

SeqToSet(s) == {s[i] : i \in DOMAIN s}

Last(s) == s[Len(s)]

\* ------------------------------------------------------------------ text

RECURSIVE LStrip(_)
LStrip(s) == IF s # <<>> /\ Head(s) = " " THEN LStrip(Tail(s)) ELSE s

RECURSIVE RStrip(_)
RStrip(s) ==
    IF s # <<>> /\ Last(s) = " " THEN RStrip(SubSeq(s, 1, Len(s) - 1)) ELSE s

\* str.strip() on a sequence of characters
Strip(s) == RStrip(LStrip(s))

RECURSIVE SplitOn(_, _, _)
\* str.split(sep): the parts of s between occurrences of sep (cur: the part so far)
SplitOn(s, sep, cur) ==
    IF s = <<>> THEN <<cur>>
    ELSE IF Head(s) = sep THEN <<cur>> \o SplitOn(Tail(s), sep, <<>>)
    ELSE SplitOn(Tail(s), sep, Append(cur, Head(s)))

\* str.replace(a, b) for single characters
ReplaceChar(s, a, b) == [i \in DOMAIN s |-> IF s[i] = a THEN b ELSE s[i]]

\* [part.strip() for part in parts if part.strip()]
StrippedParts(parts) ==
    LET stripped == [i \in DOMAIN parts |-> Strip(parts[i])]
        NonEmpty(p) == p # <<>>
    IN  SelectSeq(stripped, NonEmpty)

\* str.strip() / str.upper() / str.lower() / clean_text on the texts of the model
StripText(t) ==
    CASE t = " ^[0-9]+$ " -> "^[0-9]+$"
      [] t = " usd " -> "usd"
      [] t = " " -> ""
      [] OTHER -> t

UpperText(t) ==
    CASE t = "usd" -> "USD"
      [] t = "eur" -> "EUR"
      [] t = "united states" -> "UNITED STATES"
      [] t = "germany" -> "GERMANY"
      [] t = "bank" -> "BANK"
      [] t = "wallet" -> "WALLET"
      [] t = "card" -> "CARD"
      [] t = "local" -> "LOCAL"
      [] t = "wire" -> "WIRE"
      [] t = "default" -> "DEFAULT"
      [] OTHER -> t

LowerText(t) ==
    CASE t = "USD" -> "usd"
      [] t = "EUR" -> "eur"
      [] t = "UNITED STATES" -> "united states"
      [] t = "GERMANY" -> "germany"
      [] t = "BANK" -> "bank"
      [] t = "Bank" -> "bank"
      [] t = "WALLET" -> "wallet"
      [] t = "CARD" -> "card"
      [] t = "LOCAL" -> "local"
      [] t = "Local" -> "local"
      [] t = "WIRE" -> "wire"
      [] t = "Wire" -> "wire"
      [] t = "DEFAULT" -> "default"
      [] OTHER -> t

clean_text(t) == StripText(t)

\* -------------------------------------------------------- Schema Builder

DEFAULT_CHANNEL_BY_METHOD ==
    [m \in {"bank", "wallet", "proxy", "card", "cash"} |->
        IF m = "bank" THEN "local" ELSE "default"]

\* The channel names of the model in sorted() order
ChannelNames == <<"ach", "default", "local", "wire">>

parse_length(text) ==
    CASE text = "" -> [min |-> 0, max |-> 0]
      [] text = "2" -> [min |-> 0, max |-> 2]
      [] text = "1-2" -> [min |-> 1, max |-> 2]
      [] text = "2-3" -> [min |-> 2, max |-> 3]
      [] OTHER -> [min |-> 0, max |-> 0]

data_type_to_schema(data_type) ==
    CASE data_type \in {"string", "str", "text"} -> "string"
      [] data_type \in {"number", "float", "decimal"} -> "number"
      [] data_type \in {"integer", "int"} -> "integer"
      [] data_type \in {"boolean", "bool"} -> "boolean"
      [] data_type \in {"array", "list"} -> "array"
      [] data_type \in {"object", "dict"} -> "object"
      [] OTHER -> "string"

\* {"type": "object", "properties": {}, "required": [], "additionalProperties": True}
ObjectNode ==
    [type |-> "object", minLength |-> 0, maxLength |-> 0, pattern |-> None,
     enum |-> <<>>, description |-> <<>>, properties |-> EmptyMap,
     required |-> <<>>, additionalProperties |-> TRUE]

ensure_object_node(node, key) ==
    IF key \in DOMAIN node.properties THEN node.properties[key] ELSE ObjectNode

\* "Allowed Values": replace "|" by ",", split on ",", strip, drop the empty parts
AllowedChoices(raw) ==
    StrippedParts(SplitOn(ReplaceChar(Strip(raw), "|", ","), ",", <<>>))

StatusMarker == "Status: Conditionally mandatory (orange highlight)."

\* The notes joined by " | ", kept as the sequence of the notes
FieldNotes(row) ==
    (IF row.Conditional # "" THEN <<<<"Conditional: ", row.Conditional>>>> ELSE <<>>)
    \o (IF row.Notes # "" /\ StripText(row.Notes) # ""
        THEN <<StripText(row.Notes)>> ELSE <<>>)
    \o (IF row.state = "conditional" THEN <<StatusMarker>> ELSE <<>>)

\* The field_schema that apply_field_schema stores at the leaf
FieldSchema(row) ==
    LET type == data_type_to_schema(row.DataType)
        len  == parse_length(row.Length)
    IN  [type |-> type,
         minLength |-> IF type = "string" THEN len.min ELSE 0,
         maxLength |-> IF type = "string" THEN len.max ELSE 0,
         pattern |-> IF row.Regex # "" THEN StripText(row.Regex) ELSE None,
         enum |-> AllowedChoices(row.Allowed),
         description |-> FieldNotes(row),
         properties |-> EmptyMap,
         required |-> <<>>,
         additionalProperties |-> TRUE]

\* if mandatory_state == "mandatory" and leaf_key not in required: append
RequiredAppend(required, leaf_key, state) ==
    IF state = "mandatory" /\ leaf_key \notin SeqToSet(required)
    THEN Append(required, leaf_key)
    ELSE required

RECURSIVE apply_field_schema(_, _, _)

apply_field_schema_outer_required(node, field_parts, row) ==
    IF Len(field_parts) = 1
    THEN [node EXCEPT
            !.properties = Put(@, field_parts[1], FieldSchema(row)),
            !.required = RequiredAppend(@, field_parts[1], row.state)]
    ELSE [node EXCEPT
            !.properties =
                Put(@, Head(field_parts),
                    apply_field_schema(ensure_object_node(node, Head(field_parts)),
                                       Tail(field_parts), row)),
            !.required = RequiredAppend(@, Last(field_parts), row.state)]

apply_field_schema(node, field_parts, row) ==
    IF Len(field_parts) = 1
    THEN [node EXCEPT
            !.properties = Put(@, field_parts[1], FieldSchema(row)),
            !.required = RequiredAppend(@, field_parts[1], row.state)]
    ELSE [node EXCEPT
            !.properties =
                Put(@, Head(field_parts),
                    apply_field_schema(ensure_object_node(node, Head(field_parts)),
                                       Tail(field_parts), row))]

\* field_path = [part.strip() for part in field_value.split(".") if part.strip()]
FieldPath(field_value) == StrippedParts(SplitOn(field_value, ".", <<>>))

RowCurrency(row) == UpperText(clean_text(row.Currency))

RowCountry(row) == UpperText(clean_text(row.Country))

RowMethod(row) ==
    LET m == LowerText(clean_text(row.Method)) IN IF m = "" THEN "bank" ELSE m

RowChannel(row) ==
    LET method == RowMethod(row)
        c  == LowerText(clean_text(row.Channel))
        c2 == IF c # "" THEN c
              ELSE IF method \in DOMAIN DEFAULT_CHANNEL_BY_METHOD
                   THEN DEFAULT_CHANNEL_BY_METHOD[method] ELSE "default"
    IN  IF method = "bank" /\ c2 = "default" THEN "local" ELSE c2

\* The rows build_schemas skips (the three `continue` of its loop)
RowSkipped(row) ==
    \/ Strip(row.Field) = <<>>
    \/ RowCurrency(row) = "" \/ RowCountry(row) = ""
    \/ FieldPath(Strip(row.Field)) = <<>>

\* A dict whose insertion order matters: its keys in order, and its values
EmptyDict == [keys |-> <<>>, val |-> EmptyMap]

DictSet(d, k, v) ==
    [keys |-> IF k \in SeqToSet(d.keys) THEN d.keys ELSE Append(d.keys, k),
     val |-> Put(d.val, k, v)]

DictGet(d, k, default) == IF k \in DOMAIN d.val THEN d.val[k] ELSE default

\* One iteration of the loop of build_schemas over the rows of the frame
FoldOne(cors, row) ==
    IF RowSkipped(row) THEN cors
    ELSE LET key == <<RowCurrency(row), RowCountry(row)>>
             method == RowMethod(row)
             channel == RowChannel(row)
             method_map == DictGet(cors, key, EmptyDict)
             channel_map == DictGet(method_map, method, EmptyDict)
             channel_schema == DictGet(channel_map, channel, ObjectNode)
             updated ==
                 apply_field_schema(channel_schema, FieldPath(Strip(row.Field)), row)
         IN  DictSet(cors, key,
                     DictSet(method_map, method, DictSet(channel_map, channel, updated)))

\* dict(sorted(channels.items()))
SortedChannels(channel_map) ==
    LET Present(c) == c \in DOMAIN channel_map.val
    IN  [keys |-> SelectSeq(ChannelNames, Present), val |-> channel_map.val]

DefaultChannel_convention_only(method, ordered) ==
    IF method \in DOMAIN DEFAULT_CHANNEL_BY_METHOD THEN DEFAULT_CHANNEL_BY_METHOD[method]
    ELSE "default"

\* default_channel of a method, from its channels in sorted order
DefaultChannel(method, ordered) ==
    LET first == IF ordered.keys # <<>> THEN ordered.keys[1] ELSE "default"
        conv  == IF method \in DOMAIN DEFAULT_CHANNEL_BY_METHOD
                 THEN DEFAULT_CHANNEL_BY_METHOD[method] ELSE first
    IN  IF conv \in DOMAIN ordered.val THEN conv ELSE first

\* The second loop of build_schemas: the document of every corridor
FinalDocuments(cors) ==
    [key \in DOMAIN cors.val |->
        LET method_map == cors.val[key]
        IN  [currency |-> key[1],
             country |-> key[2],
             has_payout_methods |-> TRUE,
             root |-> [ObjectNode EXCEPT !.type = None],
             payout_methods |->
                [keys |-> method_map.keys,
                 val |-> [m \in DOMAIN method_map.val |->
                            LET ordered == SortedChannels(method_map.val[m])
                            IN  [default_channel |-> DefaultChannel(m, ordered),
                                 channels |-> ordered]]]]]

RECURSIVE FoldRows(_, _)
FoldRows(cors, rows) ==
    IF rows = <<>> THEN cors ELSE FoldRows(FoldOne(cors, Head(rows)), Tail(rows))

\* build_schemas(df)
build_schemas(rows) == FinalDocuments(FoldRows(EmptyDict, rows))

write_schemas_replacing_directory(schemas, dsk) == schemas

\* write_schemas: every document replaces the file of its corridor
write_schemas(schemas, dsk) ==
    [k \in (DOMAIN dsk) \cup (DOMAIN schemas) |->
        IF k \in DOMAIN schemas THEN schemas[k] ELSE dsk[k]]

\* ----------------------------------------------- Method/Channel Selector

\* {key.lower(): key for key in keys}: a later key replaces an earlier one
Lookup(keys) ==
    [l \in { LowerText(keys[i]) : i \in DOMAIN keys } |->
        LET last == CHOOSE i \in DOMAIN keys :
                        /\ LowerText(keys[i]) = l
                        /\ \A j \in DOMAIN keys : LowerText(keys[j]) = l => j <= i
        IN  keys[last]]

\* (None, None)
NotSelected == [found |-> FALSE, name |-> None]

Selected(key) == [found |-> TRUE, name |-> key]

\* (method or "").lower()
Requested(hint) == IF hint = None THEN "" ELSE LowerText(hint)

select_method_first(methods, method) ==
    IF methods.keys = <<>> THEN NotSelected
    ELSE LET lookup == Lookup(methods.keys)
             requested == Requested(method)
         IN  IF requested # "" /\ requested \in DOMAIN lookup
             THEN Selected(lookup[requested])
             ELSE Selected(methods.keys[1])

\* schema.get("payout_methods"): None (no method) when the document has no such key
SchemaMethods(schema) ==
    IF schema.has_payout_methods THEN schema.payout_methods ELSE EmptyDict

\* validator._select_method on schema["payout_methods"]; the block is methods[name]
select_method(methods, method) ==
    IF methods.keys = <<>> THEN NotSelected
    ELSE LET lookup == Lookup(methods.keys)
             requested == Requested(method)
         IN  IF requested # "" /\ requested \in DOMAIN lookup
             THEN Selected(lookup[requested])
             ELSE IF "bank" \in DOMAIN lookup THEN Selected(lookup["bank"])
             ELSE Selected(methods.keys[1])

select_channel_no_default(method_block, channel) ==
    LET channels == method_block.channels
    IN  IF channels.keys = <<>> THEN NotSelected
        ELSE LET lookup == Lookup(channels.keys)
                 requested == Requested(channel)
             IN  IF requested # "" /\ requested \in DOMAIN lookup
                 THEN Selected(lookup[requested])
                 ELSE IF "local" \in DOMAIN lookup THEN Selected(lookup["local"])
                 ELSE Selected(channels.keys[1])

\* validator._select_channel; the channel schema is channels[name]
select_channel(method_block, channel) ==
    LET channels == method_block.channels
    IN  IF channels.keys = <<>> THEN NotSelected
        ELSE LET lookup == Lookup(channels.keys)
                 requested == Requested(channel)
                 default_channel == method_block.default_channel
             IN  IF requested # "" /\ requested \in DOMAIN lookup
                 THEN Selected(lookup[requested])
                 ELSE IF default_channel # None
                         /\ LowerText(default_channel) \in DOMAIN lookup
                 THEN Selected(lookup[LowerText(default_channel)])
                 ELSE IF "local" \in DOMAIN lookup THEN Selected(lookup["local"])
                 ELSE Selected(channels.keys[1])

\* schema_lookup._select_method on corridor.schema["payout_methods"]: ("", None)
\* when there is no method
lookup_select_method(methods, preferred) ==
    IF preferred # None /\ preferred # "" /\ preferred \in SeqToSet(methods.keys)
    THEN Selected(preferred)
    ELSE IF methods.keys # <<>> THEN Selected(methods.keys[1])
    ELSE [found |-> FALSE, name |-> ""]

\* schema_lookup._select_channel; without channels the name is default_channel
\* and there is no channel schema
lookup_select_channel(method_block, preferred) ==
    LET channels == method_block.channels
        default_channel == method_block.default_channel
    IN  IF channels.keys = <<>> THEN [found |-> FALSE, name |-> default_channel]
        ELSE IF preferred # None /\ preferred # "" /\ preferred \in SeqToSet(channels.keys)
        THEN Selected(preferred)
        ELSE IF default_channel # None /\ default_channel # ""
                /\ default_channel \in SeqToSet(channels.keys)
        THEN Selected(default_channel)
        ELSE IF "local" \in SeqToSet(channels.keys) THEN Selected("local")
        ELSE Selected(channels.keys[1])

\* ---------------------------------------------------- Payload Validator

\* JSON values of a payload: a string (its characters) or an object (key -> value)
StrVal(chars) == [t |-> "string", s |-> chars, o |-> EmptyMap]

ObjVal(members) == [t |-> "object", s |-> <<>>, o |-> members]

Digits == {"0", "1", "2", "3", "4", "5", "6", "7", "8", "9"}

\* re.search(pattern, text) for the patterns of the model
PatternMatches(pattern, chars) ==
    CASE pattern = "^[0-9]+$" -> chars # <<>> /\ SeqToSet(chars) \subseteq Digits
      [] pattern = "" -> TRUE
      [] OTHER -> FALSE

\* An engine message: its kind and the texts it quotes between apostrophes
RequiredMessage(name) == [text |-> "is a required property", quoted |-> <<name>>]

OtherMessage(validator) == [text |-> validator, quoted |-> <<>>]

\* re.findall(r"'([^']+)'", message): the non-empty quoted texts, in order
QuotedParts(message) ==
    LET NonEmpty(part) == part # <<>> IN SelectSeq(message.quoted, NonEmpty)

\* The `type` keyword for the JSON values of the model
TypeOK(type, value) ==
    CASE type = None -> TRUE
      [] type = "string" -> value.t = "string"
      [] type = "object" -> value.t = "object"
      [] OTHER -> FALSE

EngineError(path, validator, message, fragment) ==
    [path |-> path, validator |-> validator, message |-> message, schema |-> fragment]

RECURSIVE iter_errors(_, _, _)
\* Draft202012Validator(schema).iter_errors(instance): one error per violated
\* keyword (type, minLength, maxLength, pattern, enum, one per missing required
\* key) and those of the properties present, each with the fragment that failed
iter_errors(schema, value, path) ==
    (IF ~TypeOK(schema.type, value)
     THEN {EngineError(path, "type", OtherMessage("type"), schema)} ELSE {})
    \cup
    (IF value.t = "string" /\ schema.minLength # 0 /\ Len(value.s) < schema.minLength
     THEN {EngineError(path, "minLength", OtherMessage("minLength"), schema)} ELSE {})
    \cup
    (IF value.t = "string" /\ schema.maxLength # 0 /\ Len(value.s) > schema.maxLength
     THEN {EngineError(path, "maxLength", OtherMessage("maxLength"), schema)} ELSE {})
    \cup
    (IF value.t = "string" /\ schema.pattern # None
        /\ ~PatternMatches(schema.pattern, value.s)
     THEN {EngineError(path, "pattern", OtherMessage("pattern"), schema)} ELSE {})
    \cup
    (IF schema.enum # <<>> /\ ~(value.t = "string" /\ value.s \in SeqToSet(schema.enum))
     THEN {EngineError(path, "enum", OtherMessage("enum"), schema)} ELSE {})
    \cup
    (IF value.t = "object"
     THEN { EngineError(path, "required", RequiredMessage(k), schema) :
              k \in SeqToSet(schema.required) \ DOMAIN value.o }
     ELSE {})
    \cup
    (IF value.t = "object"
     THEN UNION { iter_errors(schema.properties[k], value.o[k], Append(path, k)) :
                    k \in (DOMAIN schema.properties) \cap (DOMAIN value.o) }
     ELSE {})

\* One entry of the "errors" list of the response
Detail(path, message, validator, field, description, pattern) ==
    [path |-> path, message |-> message, validator |-> validator, field |-> field,
     schema_description |-> description, schema_pattern |-> pattern]

NoField == <<>>

ErrorDetailTopLevel(error, properties) ==
    LET leaf == IF error.path = <<>> THEN NoField ELSE Last(error.path)
        known == leaf \in DOMAIN properties
    IN  IF error.validator = "pattern"
        THEN Detail(error.path, error.message, error.validator, NoField,
                    IF known THEN properties[leaf].description ELSE <<>>,
                    IF known THEN properties[leaf].pattern ELSE None)
        ELSE Detail(error.path, error.message, error.validator, NoField, <<>>, None)

\* The enrichment of one engine error (the body of the loop of validate_payload)
ErrorDetail(error, properties) ==
    IF error.validator = "required"
    THEN LET parts == QuotedParts(error.message)
         IN  IF parts # <<>>
             THEN LET missing == parts[1]
                      known == missing \in DOMAIN properties
                  IN  Detail(error.path, error.message, error.validator, missing,
                             IF known THEN properties[missing].description ELSE <<>>,
                             IF known THEN properties[missing].pattern ELSE None)
             ELSE Detail(error.path, error.message, error.validator, NoField, <<>>, None)
    ELSE IF error.validator = "pattern"
    THEN Detail(error.path, error.message, error.validator, NoField,
                error.schema.description, error.schema.pattern)
    ELSE Detail(error.path, error.message, error.validator, NoField, <<>>, None)

schema_path_as_given(currency, country) == <<StripText(currency), StripText(country)>>

\* schema_path: the file schema_<CURRENCY>_<COUNTRY>.json, as the pair it is named by
schema_path(currency, country) ==
    <<UpperText(StripText(currency)), UpperText(StripText(country))>>

load_schema_plain_error(dsk, currency, country) ==
    LET path == schema_path(currency, country)
    IN  IF path \notin DOMAIN dsk
        THEN [raised |-> "FileNotFoundError", path |-> path]
        ELSE [raised |-> None, path |-> path]

\* load_schema: raises SchemaNotFoundError when the file does not exist
load_schema(dsk, currency, country) ==
    LET path == schema_path(currency, country)
    IN  IF path \notin DOMAIN dsk
        THEN [raised |-> "SchemaNotFoundError", path |-> path]
        ELSE [raised |-> None, path |-> path]

\* A response of validate_payload ("method"/"channel" absent: None)
Response(valid, errors, method, channel) ==
    [op |-> "validate", raised |-> None, valid |-> valid, errors |-> errors,
     method |-> method, channel |-> channel]

\* sorted(keys) of the method and channel names of the model
NameOrder == <<"bank", "card", "cash", "default", "local", "proxy", "wallet", "wire">>

SortedNames(keys) == LET In(n) == n \in SeqToSet(keys) IN SelectSeq(NameOrder, In)

\* The schema the payload is validated against, with the selection made
ValidateAgainst(target_schema, payload, method_key, channel_key) ==
    LET errors == { ErrorDetail(e, target_schema.properties) :
                      e \in iter_errors(target_schema, ObjVal(payload), <<>>) }
    IN  Response(errors = {}, errors, method_key, channel_key)

validate_payload(dsk, payload, currency, country, method, channel) ==
    LET loaded == load_schema(dsk, currency, country)
    IN  IF loaded.raised = "SchemaNotFoundError"
        THEN Response(FALSE,
                      {Detail(<<>>, [text |-> "No schema found for", quoted |-> <<>>],
                              None, NoField, <<>>, None)},
                      None, None)
        ELSE IF loaded.raised # None
        THEN [op |-> "validate", raised |-> loaded.raised, valid |-> FALSE,
              errors |-> {}, method |-> None, channel |-> None]
        ELSE LET schema == dsk[loaded.path]
             IN  IF ~schema.has_payout_methods
                 THEN ValidateAgainst(schema.root, payload, None, None)
                 ELSE LET m == select_method(schema.payout_methods, method)
                      IN  IF ~m.found
                          THEN Response(FALSE,
                                 {Detail(<<>>,
                                         [text |-> "No payout methods available",
                                          quoted |-> <<>>,
                                          choices |-> SortedNames(schema.payout_methods.keys)],
                                         None, NoField, <<>>, None)},
                                 None, None)
                          ELSE LET method_block == schema.payout_methods.val[m.name]
                                   c == select_channel(method_block, channel)
                               IN  IF ~c.found
                                   THEN Response(FALSE,
                                          {Detail(<<>>,
                                                  [text |-> "Channel not available",
                                                   quoted |-> <<>>,
                                                   choices |->
                                                     SortedNames(method_block.channels.keys)],
                                                  None, NoField, <<>>, None)},
                                          None, None)
                                   ELSE ValidateAgainst(method_block.channels.val[c.name],
                                                        payload, m.name, c.name)

\* -------------------------------------------- Corridor Index & Resolver

UpperLetters ==
    <<"A", "B", "C", "D", "E", "F", "G", "H", "I", "J", "K", "L", "M",
      "N", "O", "P", "Q", "R", "S", "T", "U", "V", "W", "X", "Y", "Z">>

LowerLetters ==
    <<"a", "b", "c", "d", "e", "f", "g", "h", "i", "j", "k", "l", "m",
      "n", "o", "p", "q", "r", "s", "t", "u", "v", "w", "x", "y", "z">>

LowerChar(c) ==
    IF \E i \in 1..26 : UpperLetters[i] = c
    THEN LowerLetters[CHOOSE i \in 1..26 : UpperLetters[i] = c] ELSE c

UpperChar(c) ==
    IF \E i \in 1..26 : LowerLetters[i] = c
    THEN UpperLetters[CHOOSE i \in 1..26 : LowerLetters[i] = c] ELSE c

\* str.lower() / str.upper() on a sequence of characters
Lower(s) == [i \in DOMAIN s |-> LowerChar(s[i])]

Upper(s) == [i \in DOMAIN s |-> UpperChar(s[i])]

\* `a in s` for strings
Contains(s, a) ==
    \E i \in 1..(Len(s) - Len(a) + 1) : SubSeq(s, i, i + Len(a) - 1) = a

\* text.replace(" ", "")
Condensed(s) == LET NotSpace(c) == c # " " IN SelectSeq(s, NotSpace)

\* The characters \w matches
WordChars == SeqToSet(UpperLetters) \cup SeqToSet(LowerLetters) \cup Digits \cup {"_"}

\* The maximal runs of characters of `class` in s, as <<first, last>> positions
Runs(s, class) ==
    { r \in (DOMAIN s) \X (DOMAIN s) :
        /\ r[1] <= r[2]
        /\ \A i \in r[1]..r[2] : s[i] \in class
        /\ r[1] = 1 \/ s[r[1] - 1] \notin class
        /\ r[2] = Len(s) \/ s[r[2] + 1] \notin class }

\* _tokenize: set(re.findall(r"[a-z]+", text))
tokenize(text) ==
    { SubSeq(text, r[1], r[2]) : r \in Runs(text, SeqToSet(LowerLetters)) }

\* re.findall(r"\b[A-Z]{3}\b", text): the words of exactly three capital letters
CurrencyCodes(text) ==
    { SubSeq(text, r[1], r[2]) :
        r \in { w \in Runs(text, WordChars) :
                  /\ w[2] - w[1] = 2
                  /\ \A i \in w[1]..w[2] : text[i] \in SeqToSet(UpperLetters) } }

\* [w for w in re.split(r"\W+", text) if w]: the words of text, in order
Words(text) ==
    LET runs == Runs(text, WordChars)
        starts == { r[1] : r \in runs }
        \* the k-th run: the one with k - 1 runs before it
        Nth(k) == CHOOSE r \in runs : Cardinality({ x \in starts : x < r[1] }) = k - 1
    IN  [k \in 1..Cardinality(runs) |-> SubSeq(text, Nth(k)[1], Nth(k)[2])]

RECURSIVE Join(_, _)
\* sep.join(words)
Join(words, sep) ==
    IF words = <<>> THEN <<>>
    ELSE IF Len(words) = 1 THEN words[1]
    ELSE words[1] \o sep \o Join(Tail(words), sep)

\* schema_lookup._corridor_aliases
corridor_aliases(corridor) ==
    LET words == Words(Lower(corridor.country))
    IN  SeqToSet(words)
        \cup (IF words = <<>> THEN {}
              ELSE { Join(words, <<>>), Join(words, <<"-">>), Join(words, <<" ">>),
                     Last(words), [i \in DOMAIN words |-> words[i][1]], words[1] })

ToAlias(alias) == <<"t", "o", " ">> \o alias

\* score_corridor of _resolve_corridors: the "to <alias>" bonus is added once for
\* every alias the phrase occurs with
score_corridor(corridor, normalized) ==
    LET aliases == corridor_aliases(corridor)
        tokens == tokenize(normalized)
        condensed == Condensed(normalized)
    IN  (IF Contains(normalized, Lower(corridor.country)) THEN 6 ELSE 0)
        + (IF aliases \cap tokens # {} THEN 5 ELSE 0)
        + (IF \E alias \in aliases : Contains(condensed, alias) THEN 4 ELSE 0)
        + 6 * Cardinality({ alias \in aliases : Contains(normalized, ToAlias(alias)) })

\* _match_countries: whether the corridor is yielded for the query
match_countries(corridor, normalized) ==
    LET aliases == corridor_aliases(corridor)
    IN  \/ \E alias \in aliases : Contains(Condensed(normalized), alias)
        \/ aliases \cap tokenize(normalized) # {}

\* The score of the fallback loop of _resolve_corridors
country_score(corridor, normalized) ==
    6 + (IF Contains(normalized, Lower(corridor.country)) THEN 10 ELSE 0)

RECURSIVE Flatten(_)
\* The concatenation of a sequence of sequences
Flatten(seqs) == IF seqs = <<>> THEN <<>> ELSE Head(seqs) \o Flatten(Tail(seqs))

MaxScore(cands) == CHOOSE m \in { cands[i].score : i \in DOMAIN cands } :
                       \A i \in DOMAIN cands : cands[i].score <= m

RECURSIVE SortByScore(_)
\* candidates.sort(key=score, reverse=True): stable, highest score first
SortByScore(cands) ==
    IF cands = <<>> THEN <<>>
    ELSE LET m == MaxScore(cands)
             Top(c) == c.score = m
             Rest(c) == c.score # m
         IN  SelectSeq(cands, Top) \o SortByScore(SelectSeq(cands, Rest))

RECURSIVE corridor_index(_)
\* _corridor_index over the files in the order glob yields them: the file
\* schema_<CUR>_<COUNTRY>.json, named by <<CUR, COUNTRY>>, is a corridor of CUR
corridor_index(files) ==
    IF files = <<>> THEN [keys |-> <<>>, val |-> EmptyMap]
    ELSE LET before == corridor_index(SubSeq(files, 1, Len(files) - 1))
             name == Last(files)
             corridor == [currency |-> Upper(name[1]), country |-> Upper(name[2])]
         IN  DictSet(before, corridor.currency,
                     Append(DictGet(before, corridor.currency, <<>>), corridor))

\* The scored candidates of _resolve_corridors after the sort
ScoredCandidates(idx, query) ==
    LET normalized == Lower(query)
        currencies == CurrencyCodes(Upper(query))
        Scored(cs) == [i \in DOMAIN cs |->
                         [score |-> score_corridor(cs[i], normalized), corridor |-> cs[i]]]
        Fallback(cs) ==
            LET Matched(c) == match_countries(c, normalized)
                ms == SelectSeq(cs, Matched)
            IN  [i \in DOMAIN ms |->
                   [score |-> country_score(ms[i], normalized), corridor |-> ms[i]]]
        by_currency ==
            Flatten([k \in DOMAIN idx.keys |->
                       IF idx.keys[k] \in currencies THEN Scored(idx.val[idx.keys[k]])
                       ELSE <<>>])
        candidates ==
            IF by_currency # <<>> THEN by_currency
            ELSE Flatten([k \in DOMAIN idx.keys |-> Fallback(idx.val[idx.keys[k]])])
    IN  SortByScore(candidates)

\* _resolve_corridors: the corridors of the candidates with score >= 0
resolve_corridors(idx, query) ==
    LET ranked == ScoredCandidates(idx, query)
        Kept(c) == c.score >= 0
        kept == SelectSeq(ranked, Kept)
    IN  [i \in DOMAIN kept |-> kept[i].corridor]

\* PREFERRED_COUNTRIES.get(code, [])
PREFERRED_COUNTRIES(code) ==
    CASE code = <<"U", "S", "D">> ->
              <<<<"U", "N", "I", "T", "E", "D", " ", "S", "T", "A", "T", "E", "S">>,
                <<"U", "S", "A">>,
                <<"U", "S">>>>
         [] code = <<"E", "U", "R">> ->
              <<<<"G", "E", "R", "M", "A", "N", "Y">>,
                <<"E", "U", "R", "O", "P", "E">>,
                <<"D", "E">>>>
         [] code = <<"G", "B", "P">> ->
              <<<<"U", "N", "I", "T", "E", "D", " ", "K", "I", "N", "G", "D", "O", "M">>,
                <<"U", "K">>,
                <<"G", "B">>>>
         [] code = <<"I", "N", "R">> ->
              <<<<"I", "N", "D", "I", "A">>>>
         [] code = <<"S", "G", "D">> ->
              <<<<"S", "I", "N", "G", "A", "P", "O", "R", "E">>>>
         [] OTHER -> <<>>

\* _ordered_currency_codes: the codes of the query in the order they occur
ordered_currency_codes(query) ==
    LET text == Upper(query)
        IsCode(w) == Len(w) = 3 /\ \A i \in 1..3 : w[i] \in SeqToSet(UpperLetters)
    IN  SelectSeq(Words(text), IsCode)

\* The place of a character in the order Python compares strings by (the
\* characters of the country names of the model: space, then the capital letters)
CharRank(c) ==
    IF c = " " THEN 0
    ELSE IF \E i \in 1..26 : UpperLetters[i] = c
         THEN CHOOSE i \in 1..26 : UpperLetters[i] = c
         ELSE 27

RECURSIVE TextLess(_, _)
\* a < b for strings
TextLess(a, b) ==
    IF b = <<>> THEN FALSE
    ELSE IF a = <<>> THEN TRUE
    ELSE IF CharRank(Head(a)) # CharRank(Head(b)) THEN CharRank(Head(a)) < CharRank(Head(b))
    ELSE TextLess(Tail(a), Tail(b))

\* priority(corridor)[0]: the place of the first preference the country matches
\* (counted from 1), one past the last when it matches none
PreferenceRank(corridor, prefs) ==
    LET country_upper == Upper(corridor.country)
        hits == { i \in DOMAIN prefs :
                    Contains(country_upper, prefs[i]) \/ Contains(prefs[i], country_upper) }
    IN  IF hits = {} THEN Len(prefs) + 1
        ELSE CHOOSE i \in hits : \A j \in hits : i <= j

\* priority(a) < priority(b): the tuples (rank, country_upper) compared
PriorityLess(a, b, prefs) ==
    LET ra == PreferenceRank(a, prefs)
        rb == PreferenceRank(b, prefs)
    IN  ra < rb \/ (ra = rb /\ TextLess(Upper(a.country), Upper(b.country)))

\* candidates.sort(key=priority)[0]: the first candidate no other one precedes
FirstByPriority(candidates, prefs) ==
    LET firsts == { i \in DOMAIN candidates :
                      \A j \in DOMAIN candidates :
                          /\ ~PriorityLess(candidates[j], candidates[i], prefs)
                          /\ (j < i => PriorityLess(candidates[i], candidates[j], prefs)) }
    IN  candidates[CHOOSE i \in firsts : TRUE]

RECURSIVE FillFrom_without_skip(_, _, _)
FillFrom_without_skip(resolved, selected, count) ==
    IF resolved = <<>> \/ Len(selected) >= count THEN selected
    ELSE FillFrom_without_skip(Tail(resolved), Append(selected, Head(resolved)), count)

RECURSIVE FillFrom(_, _, _)
\* The second loop of _select_comparison_corridors: the resolved corridors not
\* yet selected, in order, until `count` are selected
FillFrom(resolved, selected, count) ==
    IF resolved = <<>> \/ Len(selected) >= count THEN selected
    ELSE IF Head(resolved) \in SeqToSet(selected)
         THEN FillFrom(Tail(resolved), selected, count)
         ELSE FillFrom(Tail(resolved), Append(selected, Head(resolved)), count)

RECURSIVE PickByCode(_, _, _, _, _)
\* The first loop of _select_comparison_corridors over the codes of the query;
\* `picks` keeps, for every code that chose a corridor, the candidates it chose from
PickByCode(codes, resolved, selected, picks, count) ==
    IF codes = <<>> THEN [selected |-> selected, picks |-> picks, full |-> FALSE]
    ELSE LET code == Head(codes)
             prefs == PREFERRED_COUNTRIES(code)
             Candidate(c) == c.currency = code /\ c \notin SeqToSet(selected)
             Picked(selected2, picks2) ==
                 IF Len(selected2) >= count
                 THEN [selected |-> selected2, picks |-> picks2, full |-> TRUE]
                 ELSE PickByCode(Tail(codes), resolved, selected2, picks2, count)
             \* (a local is computed once: CHOOSE over the one value it gives)
             From(candidates) ==
                 IF candidates = <<>>
                 THEN PickByCode(Tail(codes), resolved, selected, picks, count)
                 ELSE LET Choose(chosen) ==
                              Picked(Append(selected, chosen),
                                     Append(picks, [code |-> code, candidates |-> candidates,
                                                    chosen |-> chosen]))
                      IN  CHOOSE r \in { Choose(chosen) :
                                           chosen \in { IF prefs # <<>>
                                                        THEN FirstByPriority(candidates, prefs)
                                                        ELSE candidates[1] } } : TRUE
         IN  CHOOSE r \in { From(candidates) :
                              candidates \in { SelectSeq(resolved, Candidate) } } : TRUE

\* _select_comparison_corridors after `resolved = _resolve_corridors(query)`,
\* with the choices its first loop made
ComparisonFrom(resolved, query, count) ==
    LET Truncated(selected) ==
            SubSeq(selected, 1, IF Len(selected) < count THEN Len(selected) ELSE count)
        Filled(picked) ==
            [selected |-> Truncated(IF picked.full THEN picked.selected
                                    ELSE FillFrom(resolved, picked.selected, count)),
             picks |-> picked.picks]
        Picks(codes) == PickByCode(codes, resolved, <<>>, <<>>, count)
    IN  IF resolved = <<>> THEN [selected |-> <<>>, picks |-> <<>>]
        ELSE CHOOSE r \in { Filled(picked) :
                              picked \in { Picks(codes) :
                                             codes \in { ordered_currency_codes(query) } } } :
                        TRUE

\* _select_comparison_corridors with the choices its first loop made
ComparisonChoice(idx, query, count) ==
    CHOOSE r \in { ComparisonFrom(resolved, query, count) :
                     resolved \in { resolve_corridors(idx, query) } } : TRUE

\* _select_comparison_corridors(query, count)
select_comparison_corridors(idx, query, count) == ComparisonChoice(idx, query, count).selected

\* ------------------------------------------------ Requirement Classifier

\* clean_text on a sequence of characters: tabs and line ends become spaces, the
\* text is stripped, and "nan" is the empty text
CleanChars(value) ==
    LET normalized == Strip(ReplaceChar(ReplaceChar(value, "\t", " "), "\n", " "))
    IN  IF Lower(normalized) = <<"n", "a", "n">> THEN <<>> ELSE normalized

CONDITIONAL_PHRASES ==
    { <<"r", "e", "q", "u", "i", "r", "e", "d", " ", "i", "f">>,
      <<"r", "e", "q", "u", "i", "r", "e", "d", " ", "w", "h", "e", "n">>,
      <<"r", "e", "q", "u", "i", "r", "e", "d", " ", "f", "o", "r">>,
      <<"r", "e", "q", "u", "i", "r", "e", "d", " ", "u", "n", "l", "e", "s", "s">>,
      <<"m", "a", "n", "d", "a", "t", "o", "r", "y", " ", "i", "f">>,
      <<"m", "a", "n", "d", "a", "t", "o", "r", "y", " ", "w", "h", "e", "n">>,
      <<"m", "a", "n", "d", "a", "t", "o", "r", "y", " ", "f", "o", "r">>,
      <<"m", "a", "n", "d", "a", "t", "o", "r", "y", " ", "u", "n", "l", "e", "s", "s">>,
      <<"c", "o", "n", "d", "i", "t", "i", "o", "n", "a", "l", "l", "y">> }

MUST_MANDATORY_PHRASES ==
    { <<"m", "u", "s", "t", " ", "p", "r", "o", "v", "i", "d", "e">>,
      <<"m", "u", "s", "t", " ", "i", "n", "c", "l", "u", "d", "e">>,
      <<"m", "u", "s", "t", " ", "s", "u", "b", "m", "i", "t">>,
      <<"m", "u", "s", "t", " ", "s", "u", "p", "p", "l", "y">>,
      <<"m", "u", "s", "t", " ", "h", "a", "v", "e">>,
      <<"m", "u", "s", "t", " ", "u", "p", "l", "o", "a", "d">>,
      <<"m", "u", "s", "t", " ", "e", "n", "t", "e", "r">>,
      <<"m", "u", "s", "t", " ", "q", "u", "o", "t", "e">>,
      <<"m", "u", "s", "t", " ", "l", "i", "s", "t">> }

\* AFFIRMATIVE_TOKEN.match(text): ^(yes|y|true)$
AFFIRMATIVE_TOKEN(text) == text \in { <<"y", "e", "s">>,
                              <<"y">>,
                              <<"t", "r", "u", "e">> }

\* MANDATORY_TOKEN.search(text): mandatory|required
MANDATORY_TOKEN(text) ==
    \/ Contains(text, <<"m", "a", "n", "d", "a", "t", "o", "r", "y">>)
    \/ Contains(text, <<"r", "e", "q", "u", "i", "r", "e", "d">>)

\* any(phrase in text for phrase in phrases)
ContainsAny(text, phrases) == \E phrase \in phrases : Contains(text, phrase)

\* text.startswith(prefix)
StartsWith(text, prefix) ==
    Len(text) >= Len(prefix) /\ SubSeq(text, 1, Len(prefix)) = prefix

mandatory_state_from_text_conditional_first(value) ==
    LET text == Lower(CleanChars(value))
    IN  IF text = <<>> THEN ""
        ELSE IF ContainsAny(text, CONDITIONAL_PHRASES) THEN "conditional"
        ELSE IF Contains(text, <<"o", "p", "t", "i", "o", "n", "a", "l">>) THEN "optional"
        ELSE IF ContainsAny(text, MUST_MANDATORY_PHRASES) THEN "mandatory"
        ELSE IF AFFIRMATIVE_TOKEN(text) \/ MANDATORY_TOKEN(text) THEN "mandatory"
        ELSE IF StartsWith(text, <<"c", "o", "n", "d", "i", "t", "i", "o", "n", "a", "l">>) THEN "conditional"
        ELSE ""

\* mandatory_state_from_text
mandatory_state_from_text(value) ==
    LET text == Lower(CleanChars(value))
    IN  IF text = <<>> THEN ""
        ELSE IF Contains(text, <<"o", "p", "t", "i", "o", "n", "a", "l">>) THEN "optional"
        ELSE IF ContainsAny(text, CONDITIONAL_PHRASES) THEN "conditional"
        ELSE IF ContainsAny(text, MUST_MANDATORY_PHRASES) THEN "mandatory"
        ELSE IF AFFIRMATIVE_TOKEN(text) \/ MANDATORY_TOKEN(text) THEN "mandatory"
        ELSE IF StartsWith(text, <<"c", "o", "n", "d", "i", "t", "i", "o", "n", "a", "l">>) THEN "conditional"
        ELSE ""

HexDigits ==
    <<"0", "1", "2", "3", "4", "5", "6", "7", "8", "9", "A", "B", "C", "D", "E", "F">>

\* int(pair, 16) for a pair of hexadecimal digits
HexByte(pair) ==
    LET Digit(c) == (CHOOSE i \in 1..16 : HexDigits[i] = c) - 1
    IN  16 * Digit(pair[1]) + Digit(pair[2])

\* normalize_color_code on the text of an rgb attribute (<<>>: None)
normalize_color_code(value) ==
    LET code == Upper(Strip(value))
    IN  IF Len(code) = 6 THEN <<"F", "F">> \o code
        ELSE IF Len(code) = 8 THEN code
        ELSE <<>>

\* An openpyxl colour: its rgb text (<<>>: None) and its theme number (<<>>: None)
Color(rgb, theme) == [rgb |-> rgb, theme |-> theme]

\* The key "" of color_key
NoKey == [kind |-> "", code |-> <<>>]

\* color_key: "rgb:<ARGB>", "theme:<n>:0", or ""
color_key(color) ==
    IF color.rgb # <<>> /\ normalize_color_code(color.rgb) # <<>>
    THEN [kind |-> "rgb", code |-> normalize_color_code(color.rgb)]
    ELSE IF color.theme # <<>> THEN [kind |-> "theme", code |-> color.theme]
    ELSE NoKey

\* The margin by which green must exceed red and blue
GreenMargin == 25

\* classify_rgb
classify_rgb(rgb) ==
    IF rgb = <<>> THEN "optional"
    ELSE LET code == normalize_color_code(rgb)
         IN  IF Len(code) < 6 THEN "optional"
             ELSE LET hex_part == SubSeq(code, Len(code) - 5, Len(code))
                      r == HexByte(SubSeq(hex_part, 1, 2))
                      g == HexByte(SubSeq(hex_part, 3, 4))
                      b == HexByte(SubSeq(hex_part, 5, 6))
                  IN  IF g > r + GreenMargin /\ g > b + GreenMargin THEN "mandatory"
                      ELSE IF r >= g /\ r >= b THEN "conditional"
                      ELSE "optional"

\* A worksheet cell: the fill_type of its fill (None: no fill) and its start_color
Cell(fill_type, color) == [fill_type |-> fill_type, color |-> color]

\* mandatory_state_from_color with the legend it reads given as `legend`
StateFromColor(cell, legend) ==
    IF cell.fill_type # "solid" THEN "optional"
    ELSE LET key == color_key(cell.color)
         IN  IF key \in DOMAIN legend THEN legend[key]
             ELSE classify_rgb(normalize_color_code(cell.color.rgb))

\* mandatory_state_from_color: reads the module-level COLOR_STATE_MAP
mandatory_state_from_color(cell) == StateFromColor(cell, COLOR_STATE_MAP)

\* STATE_ALIASES.get(clean_text(label).lower()): "" when the label is no alias
STATE_ALIASES(label) ==
    LET key == Lower(CleanChars(label))
    IN  CASE key = <<"m", "a", "n", "d", "a", "t", "o", "r", "y">> -> "mandatory"
          [] key = <<"r", "e", "q", "u", "i", "r", "e", "d">> -> "mandatory"
          [] key = <<"c", "o", "n", "d", "i", "t", "i", "o", "n", "a", "l">> -> "conditional"
          [] key = <<"o", "p", "t", "i", "o", "n", "a", "l">> -> "optional"
          [] OTHER -> ""

RECURSIVE LegendOf(_)
\* The map build_color_state_map fills from the rows 2, 3, 4 of the Instructions
\* sheet, each a colour cell and a label (no Instructions sheet: no row)
LegendOf(rows) ==
    IF rows = <<>> THEN EmptyMap
    ELSE LET before == LegendOf(SubSeq(rows, 1, Len(rows) - 1))
             row == Last(rows)
             state == STATE_ALIASES(row.label)
             key == color_key(row.color)
         IN  IF state # "" /\ key # NoKey THEN Put(before, key, state) ELSE before

CombineStates_text_first(color_state, textual_state) ==
    IF textual_state # "" THEN textual_state ELSE color_state

\* annotate_mandatory_states for one row: __mandatory_state__ from the verdict of
\* the colour of the Field cell (optional without a worksheet) and the Mandatory text
CombineStates(color_state, textual_state) ==
    IF color_state \in {"optional", ""} /\ textual_state # "" THEN textual_state
    ELSE color_state

\* ---------------------------------------------------- Matrix Normalizer

WIRE_HINTS ==
    { <<"w", "i", "r", "e">>,
      <<"s", "w", "i", "f", "t">>,
      <<"i", "n", "t", "e", "r", "n", "a", "t", "i", "o", "n", "a", "l">>,
      <<"c", "r", "o", "s", "s", " ", "b", "o", "r", "d", "e", "r">>,
      <<"c", "r", "o", "s", "s", "-", "b", "o", "r", "d", "e", "r">>,
      <<"c", "r", "o", "s", "s", "b", "o", "r", "d", "e", "r">>,
      <<"x", "b">>,
      <<"g", "l", "o", "b", "a", "l">>,
      <<"i", "n", "t", "l">>,
      <<"o", "v", "e", "r", "s", "e", "a", "s">> }

LOCAL_HINTS ==
    { <<"l", "o", "c", "a", "l">>,
      <<"d", "o", "m", "e", "s", "t", "i", "c">>,
      <<"a", "c", "h">>,
      <<"s", "e", "p", "a">>,
      <<"r", "t", "g", "s">>,
      <<"n", "e", "f", "t">>,
      <<"i", "n", "-", "c", "o", "u", "n", "t", "r", "y">>,
      <<"i", "n", "c", "o", "u", "n", "t", "r", "y">> }

\* The place of the first occurrence of `a` in `s`, 0 when there is none
Find(s, a) ==
    LET hits == { i \in 1..(Len(s) - Len(a) + 1) : SubSeq(s, i, i + Len(a) - 1) = a }
    IN  IF hits = {} THEN 0 ELSE CHOOSE i \in hits : \A j \in hits : i <= j

\* parse_corridor_label: "<country> (<CUR>) <descriptor>", else "<country> - <descriptor>"
parse_corridor_label(label) ==
    LET text == CleanChars(label)
        CodeChars == SeqToSet(UpperLetters) \cup Digits
        hits == { p \in 2..(Len(text) - 4) :
                    /\ text[p] = "(" /\ text[p + 4] = ")"
                    /\ \A i \in (p + 1)..(p + 3) : text[i] \in CodeChars }
        dash == Find(text, <<" ", "-", " ">>)
    IN  IF hits # {}
        THEN LET p == CHOOSE i \in hits : \A j \in hits : i <= j
             IN  [country |-> CleanChars(SubSeq(text, 1, p - 1)),
                  currency |-> CleanChars(SubSeq(text, p + 1, p + 3)),
                  descriptor |-> CleanChars(SubSeq(text, p + 5, Len(text)))]
        ELSE IF dash # 0
        THEN [country |-> CleanChars(SubSeq(text, 1, dash - 1)),
              currency |-> <<>>,
              descriptor |-> CleanChars(SubSeq(text, dash + 3, Len(text)))]
        ELSE [country |-> CleanChars(text), currency |-> <<>>, descriptor |-> <<>>]

\* infer_channel
infer_channel(method, corridor_label, descriptor) ==
    LET method_key == IF LowerText(clean_text(method)) = "" THEN "bank"
                      ELSE LowerText(clean_text(method))
        default_channel == IF method_key \in DOMAIN DEFAULT_CHANNEL_BY_METHOD
                           THEN DEFAULT_CHANNEL_BY_METHOD[method_key] ELSE "default"
        text == Lower(descriptor \o <<" ">> \o corridor_label)
    IN  IF method_key # "bank" THEN default_channel
        ELSE IF Contains(text, <<"w", "i", "r", "e">>) \/ Contains(text, <<"s", "w", "i", "f", "t">>)
                \/ Contains(text, <<"i", "n", "t", "e", "r", "n", "a", "t", "i", "o", "n", "a", "l">>) THEN "wire"
        ELSE IF Contains(text, <<"a", "c", "h">>) \/ Contains(text, <<"l", "o", "c", "a", "l">>)
                \/ Contains(text, <<"d", "o", "m", "e", "s", "t", "i", "c">>) THEN "local"
        ELSE default_channel

\* str.isdigit() and int(suffix) % 2 == 1
OddNumber(suffix) ==
    /\ suffix # <<>>
    /\ \A i \in DOMAIN suffix : suffix[i] \in Digits
    /\ Last(suffix) \in {"1", "3", "5", "7", "9"}

\* resolve_channel of extract_matrix_records: the bucket of a sub-column
resolve_channel(raw_key, base_channel) ==
    LET key_lower == Lower(CleanChars(raw_key))
        normalized == ReplaceChar(key_lower, "-", " ")
    IN  IF ContainsAny(normalized, WIRE_HINTS) THEN "wire"
        ELSE IF ContainsAny(normalized, LOCAL_HINTS) THEN "local"
        ELSE IF "." \in SeqToSet(key_lower) /\ OddNumber(Last(SplitOn(key_lower, ".", <<>>)))
        THEN "wire"
        ELSE IF \/ Contains(key_lower, <<"r", "e", "g", "e", "x", "(", "w", "i", "r", "e", "s">>)
                \/ Contains(key_lower, <<"d", "e", "s", "c", "r", "i", "p", "t", "i", "o", "n", ".", "1">>) \/ Contains(key_lower, <<"d", "e", "s", "c", "r", "i", "p", "t", "i", "o", "n", ".", "3">>)
        THEN "wire"
        ELSE IF Contains(key_lower, <<"r", "e", "g", "e", "x", "(", "l", "o", "c", "a", "l">>) THEN "local"
        ELSE base_channel

\* The bucket a channel starts with
EmptyBucket ==
    [descriptions |-> <<>>, notes |-> <<>>, regex |-> <<>>, explicit_state |-> "",
     explicit_note |-> <<>>, color_state |-> "", non_empty_keys |-> <<>>]

HighlightNote == <<"C", "o", "n", "d", "i", "t", "i", "o", "n", "a", "l", "l", "y", " ", "m", "a", "n", "d", "a", "t", "o", "r", "y", " ", "(", "h", "i", "g", "h", "l", "i", "g", "h", "t", "e", "d", ")", ".">>

\* One iteration of `for raw_key, value in non_empty_items.items()` on the bucket
\* of the key (`colored`: a worksheet cell was found for the key)
BucketStep(bucket, raw_key, value, colored, cell) ==
    LET key_text == CleanChars(raw_key)
        lower_key == Lower(key_text)
        note == key_text \o <<":", " ">> \o value
        b1 == [bucket EXCEPT !.non_empty_keys = Append(@, raw_key)]
        b2 == IF Contains(lower_key, <<"r", "e", "g", "e", "x">>) /\ ~Contains(lower_key, <<"d", "e", "s", "c", "r", "i", "p", "t", "i", "o", "n">>)
              THEN IF b1.regex = <<>> THEN [b1 EXCEPT !.regex = value]
                   ELSE [b1 EXCEPT !.notes = Append(@, note)]
              ELSE IF Contains(lower_key, <<"d", "e", "s", "c", "r", "i", "p", "t", "i", "o", "n">>)
              THEN [b1 EXCEPT !.descriptions = Append(@, value)]
              ELSE [b1 EXCEPT !.notes = Append(@, note)]
        color_state == mandatory_state_from_color(cell)
        Colored(stored) ==
            LET c1 == IF stored.color_state # "mandatory" /\ color_state # "optional"
                      THEN [stored EXCEPT !.color_state = color_state] ELSE stored
            IN  IF color_state = "conditional" /\ c1.explicit_state # "mandatory"
                THEN [c1 EXCEPT !.explicit_state = "conditional",
                                !.explicit_note = IF @ = <<>> THEN HighlightNote ELSE @]
                ELSE c1
        from_text == mandatory_state_from_text(value)
        Stated(b3) ==
            LET requirement_state ==
                    IF /\ from_text # "mandatory" /\ b3.explicit_state # "conditional"
                       /\ Contains(Lower(CleanChars(value)), <<"m", "u", "s", "t">>)
                    THEN "conditional" ELSE from_text
            IN  IF requirement_state = "conditional"
                THEN [b3 EXCEPT !.explicit_state = "conditional",
                                !.explicit_note = IF @ = <<>> THEN CleanChars(value) ELSE @]
                ELSE IF requirement_state = "mandatory" /\ b3.explicit_state # "conditional"
                THEN [b3 EXCEPT !.explicit_state = "mandatory"]
                ELSE b3
    \* (a local is computed once: CHOOSE over the one value it gives)
    IN  CHOOSE r \in { Stated(b3) :
                         b3 \in { IF colored THEN Colored(stored) ELSE stored :
                                    stored \in { b2 } } } : TRUE

RECURSIVE derive_mandatory_and_conditional(_)
\* derive_mandatory_and_conditional(texts)
derive_mandatory_and_conditional(texts) ==
    IF texts = <<>> THEN [mandatory |-> "", conditional |-> <<>>]
    ELSE LET normalized == CleanChars(Last(texts))
             state_hint == mandatory_state_from_text(normalized)
             lower == Lower(normalized)
             After(before) ==
                 IF normalized = <<>> THEN before
                 ELSE IF state_hint = "conditional"
                 THEN [mandatory |-> "conditional",
                       conditional |-> IF before.conditional = <<>> THEN normalized
                                       ELSE before.conditional]
                 ELSE IF /\ before.mandatory = ""
                         /\ (state_hint = "mandatory" \/ MANDATORY_TOKEN(lower)
                             \/ AFFIRMATIVE_TOKEN(lower))
                 THEN [before EXCEPT !.mandatory = "mandatory"]
                 ELSE before
         \* (the result so far is computed once: CHOOSE over the one value it gives)
         IN  CHOOSE r \in { After(before) :
                              before \in { derive_mandatory_and_conditional(
                                               SubSeq(texts, 1, Len(texts) - 1)) } } : TRUE

\* The record of one channel bucket of a field row in a corridor
BucketRecord(sheet, canonical_field, label, channel, bucket, row_color_state, base_channel) ==
    LET parsed == parse_corridor_label(label)
        color_state_detected ==
            IF bucket.color_state # "" THEN bucket.color_state ELSE row_color_state
        explicit_note == bucket.explicit_note
        explicit_start ==
            IF bucket.explicit_state # "" THEN bucket.explicit_state ELSE row_color_state
        explicit_state ==
            IF color_state_detected = "mandatory" /\ explicit_start # "mandatory"
            THEN "mandatory" ELSE explicit_start
        Verdict(derived) ==
            LET note_or_derived == IF explicit_note # <<>> THEN explicit_note
                                   ELSE derived.conditional
            IN
            IF explicit_state = "conditional"
            THEN [mandatory |-> "conditional", conditional |-> note_or_derived]
            ELSE IF explicit_state = "mandatory"
            THEN [mandatory |-> "mandatory", conditional |-> derived.conditional]
            ELSE IF color_state_detected = "mandatory"
            THEN [mandatory |-> "mandatory", conditional |-> derived.conditional]
            ELSE IF /\ color_state_detected = "conditional"
                    /\ (channel # base_channel \/ derived.conditional # <<>>
                        \/ explicit_note # <<>>)
            THEN [mandatory |-> "conditional", conditional |-> note_or_derived]
            ELSE derived
        NonEmpty(part) == part # <<>>
        notes_parts == SelectSeq(bucket.descriptions \o bucket.notes, NonEmpty)
        Record(verdict) ==
            [Country |-> Upper(parsed.country),
             Currency |-> Upper(parsed.currency),
             Field |-> canonical_field,
             Mandatory |-> verdict.mandatory,
             Regex |-> bucket.regex,
             Conditional |-> verdict.conditional,
             Notes |-> IF notes_parts # <<>> THEN notes_parts ELSE <<sheet.name>>,
             Method |-> sheet.method,
             Channel |-> channel,
             state |-> IF verdict.mandatory # "" THEN verdict.mandatory ELSE "optional"]
    \* (a local is computed once: CHOOSE over the one value it gives)
    IN  CHOOSE r \in { Record(verdict) :
                         verdict \in { Verdict(derived) :
                                         derived \in { derive_mandatory_and_conditional(
                                                          bucket.descriptions \o bucket.notes) } } } : TRUE

NonEmptyItems_all(cleaned) == [i \in DOMAIN cleaned |-> i]

\* non_empty_items: the sub-columns of the corridor whose cleaned value is not
\* empty, in column order (by their place in the column group)
NonEmptyItems(cleaned) ==
    LET Filled(i) == cleaned[i] # <<>>
    IN  SelectSeq([i \in DOMAIN cleaned |-> i], Filled)

\* row_lookup.get(key): the first worksheet row whose field cell has this name
ExcelRow(sheet, k) ==
    LET Key(j) == Lower(CleanChars(sheet.rows[j].field))
        same == { j \in DOMAIN sheet.rows : Key(j) = Key(k) }
    IN  CHOOSE j \in same : \A i \in same : j <= i

RECURSIVE ChannelBuckets(_, _, _, _, _, _)
\* The loop over non_empty_items: channel -> bucket, in the order channels appear
ChannelBuckets(items, keys, cleaned, fills, colored, base_channel) ==
    IF items = <<>> THEN EmptyDict
    ELSE LET i == Last(items)
             Stepped(before, channel) ==
                 CHOOSE r \in { DictSet(before, channel,
                                        BucketStep(bucket, keys[i], cleaned[i], colored, fills[i])) :
                                   bucket \in { DictGet(before, channel, EmptyBucket) } } : TRUE
         \* (a local is computed once: CHOOSE over the one value it gives)
         IN  CHOOSE r \in { Stepped(before, channel) :
                              before \in { ChannelBuckets(SubSeq(items, 1, Len(items) - 1), keys,
                                                          cleaned, fills, colored, base_channel) },
                              channel \in { resolve_channel(keys[i], base_channel) } } : TRUE

\* CODE_LIKE_RE.match(alias): ^[A-Za-z0-9_.]+$
CodeLike(alias) == alias # <<>> /\ \A i \in DOMAIN alias : alias[i] \in WordChars \cup {"."}

\* The body of `for corridor in corridor_names` for the field row k and the
\* column group ci: the records of the corridor, each with the row and the group
ExtractCorridor(sheet, k, ci) ==
    LET row == sheet.rows[k]
        label == sheet.corridor_names[ci]
        alias_value == CleanChars(row.alias)
        canonical_field == IF CodeLike(alias_value) THEN alias_value
                           ELSE CleanChars(row.field)
        Records(buckets, row_color_state, base_channel) ==
            [j \in DOMAIN buckets.keys |->
                [row |-> k, corridor |-> ci,
                 record |-> BucketRecord(sheet, canonical_field, label, buckets.keys[j],
                                         buckets.val[buckets.keys[j]], row_color_state,
                                         base_channel)]]
        Bucketed(cleaned, items, excel_row, base_channel) ==
            IF items = <<>> THEN <<>>
            ELSE CHOOSE r \in
                   { Records(buckets, row_color_state, base_channel) :
                       buckets \in { ChannelBuckets(
                                       items, sheet.keys, cleaned,
                                       [i \in DOMAIN sheet.keys |->
                                          sheet.rows[excel_row].cells[ci][i].fill],
                                       sheet.worksheet, base_channel) },
                       row_color_state \in
                           { IF sheet.worksheet
                             THEN mandatory_state_from_color(sheet.rows[excel_row].fill)
                             ELSE "" } } : TRUE
        Cleaned(cleaned) ==
            CHOOSE r \in
              { Bucketed(cleaned, items, excel_row, base_channel) :
                  items \in { NonEmptyItems(cleaned) },
                  excel_row \in { ExcelRow(sheet, k) },
                  base_channel \in { infer_channel(sheet.method, label,
                                                   parse_corridor_label(label).descriptor) } } : TRUE
    \* (a local is computed once: CHOOSE over the one value it gives)
    IN  CHOOSE r \in
          { Cleaned(cleaned) :
              cleaned \in { [i \in DOMAIN sheet.keys |-> CleanChars(row.cells[ci][i].value)] } } : TRUE

\* The body of `for row_position, (idx, field_name) in ...` for the field row k
ExtractFieldRow(sheet, k) ==
    LET normalized_field == CleanChars(sheet.rows[k].field)
    IN  IF normalized_field = <<>> \/ Lower(normalized_field) = <<"n", "o", "t", "e", "s">> THEN <<>>
        ELSE Flatten([ci \in DOMAIN sheet.corridor_names |-> ExtractCorridor(sheet, k, ci)])

\* ------------------------------------------------- the compile pass (rows)

\* Bound: the number of rows of the frame that build_schemas folds
MaxRows == 3

\* The rows of a frame: every combination of the given column values
RowsOf(fields, states, channels, regexes, lengths, alloweds, notes) ==
    [Currency : {"usd"}, Country : {"united states"}, Method : {"bank"},
     Channel : channels, Field : fields, state : states, DataType : {""},
     Length : lengths, Regex : regexes, Allowed : alloweds,
     Conditional : {""}, Notes : notes]

FieldA == <<"a">>
FieldB == <<"b">>
FieldAB == <<"a", ".", "b">>

BuildRows ==
    RowsOf({FieldA, FieldB, FieldAB, <<>>}, {"mandatory", "conditional", "optional"},
           {"", "wire"}, {"", " ^[0-9]+$ "}, {""}, {<<>>}, {""})

\* build_schemas has not returned yet
NotReturned == [returned |-> FALSE, docs |-> EmptyMap]

\* No query-time call was made yet
NoCall == [op |-> "none"]

\* _corridor_index was not called yet: its cache is empty
NotBuilt == [built |-> FALSE, keys |-> <<>>, val |-> EmptyMap]

\* No run of ingest: the legend is empty as the module defines it
NoIngest == COLOR_STATE_MAP = EmptyMap /\ workbooks = <<>> /\ ingests = <<>>

InitBuild ==
    /\ corridors = EmptyDict
    /\ nrows = 0
    /\ declared = {}
    /\ final = NotReturned
    /\ disk = EmptyMap
    /\ index = NotBuilt
    /\ request = NoCall
    /\ response = NoCall
    /\ NoIngest
    /\ callers = <<>>
    /\ conversations = EmptyMap

\* One iteration of `for _, row in df.iterrows()` of build_schemas
FoldRow ==
    /\ ~final.returned
    /\ nrows < MaxRows
    /\ \E row \in BuildRows :
         /\ corridors' = FoldOne(corridors, row)
         /\ declared' =
              IF ~RowSkipped(row) /\ row.state = "mandatory"
              THEN declared \cup {<<<<RowCurrency(row), RowCountry(row)>>, RowMethod(row),
                                    RowChannel(row), FieldPath(Strip(row.Field))>>}
              ELSE declared
    /\ nrows' = nrows + 1
    /\ UNCHANGED <<final, disk, index, request, response, ingestVars, callers, conversations>>

\* The end of the loop: build_schemas assembles and returns the documents
BuildReturn ==
    /\ ~final.returned
    /\ final' = [returned |-> TRUE, docs |-> FinalDocuments(corridors)]
    /\ UNCHANGED <<corridors, nrows, declared, disk, index, request, response, ingestVars, callers, conversations>>

NextBuild == FoldRow \/ BuildReturn

SpecBuild == InitBuild /\ [][NextBuild]_vars

\* The channel schemas being built, and after the return those of the documents
ChannelSchemas ==
    { corridors.val[k].val[m].val[c] :
        <<k, m, c>> \in { t \in (DOMAIN corridors.val) \X {"bank"} \X SeqToSet(ChannelNames) :
                            /\ t[2] \in DOMAIN corridors.val[t[1]].val
                            /\ t[3] \in DOMAIN corridors.val[t[1]].val[t[2]].val } }
    \cup
    { final.docs[k].payout_methods.val[m].channels.val[c] :
        <<k, m, c>> \in { t \in (DOMAIN final.docs) \X {"bank"} \X SeqToSet(ChannelNames) :
                            /\ t[2] \in DOMAIN final.docs[t[1]].payout_methods.val
                            /\ t[3] \in DOMAIN final.docs[t[1]].payout_methods.val[t[2]].channels.val } }

\* A channel schema and the nodes nested in it (two levels, the depth of the paths)
NodesOf(schema) ==
    {schema}
    \cup { schema.properties[k] : k \in DOMAIN schema.properties }
    \cup UNION { { schema.properties[k].properties[j] :
                     j \in DOMAIN schema.properties[k].properties } :
                 k \in DOMAIN schema.properties }

AllNodes == UNION { NodesOf(s) : s \in ChannelSchemas }

Count(seq, x) == Cardinality({ i \in DOMAIN seq : seq[i] = x })

NoNode == [ObjectNode EXCEPT !.type = None]

RECURSIVE NodeAt(_, _)
\* The node at a path under a node, NoNode when the path leaves the tree
NodeAt(node, path) ==
    IF path = <<>> THEN node
    ELSE IF Head(path) \in DOMAIN node.properties
         THEN NodeAt(node.properties[Head(path)], Tail(path))
         ELSE NoNode

\* C1 (as claimed): every field path folded as mandatory has its leaf key exactly
\* once in the `required` list of its immediately enclosing object.
C1_RequiredExactlyOnce ==
    \A d \in declared :
        LET schema == corridors.val[d[1]].val[d[2]].val[d[3]]
            path == d[4]
            encl == NodeAt(schema, SubSeq(path, 1, Len(path) - 1))
        IN  encl # NoNode /\ Count(encl.required, Last(path)) = 1

\* The leaf key of the declared path d is in the `required` list of the object
\* that encloses it in the channel schema of d, in the corridors `cors`
InRequired(cors, d) ==
    /\ d[1] \in DOMAIN cors.val
    /\ d[2] \in DOMAIN cors.val[d[1]].val
    /\ d[3] \in DOMAIN cors.val[d[1]].val[d[2]].val
    /\ LET encl == NodeAt(cors.val[d[1]].val[d[2]].val[d[3]],
                          SubSeq(d[4], 1, Len(d[4]) - 1))
       IN  encl # NoNode /\ Last(d[4]) \in SeqToSet(encl.required)

\* C27 (as claimed): `required` lists only grow during a compile pass: a field
\* that was declared mandatory and is in `required` stays in `required` whatever
\* row is folded next.
C27_RequiredOnlyGrows ==
    [][\A d \in declared : InRequired(corridors, d) => InRequired(corridors', d)]_vars

\* C2: in every channel schema and every nested node, during the fold and in the
\* returned documents, each key of `required` is a key of `properties`.
C2_RequiredSubsetProperties ==
    \A n \in AllNodes : SeqToSet(n.required) \subseteq DOMAIN n.properties

\* C2 witness: a returned document in which `a` was declared as a field and then
\* `a.b` as mandatory: a string node that carries a nested `required`.
C2_Witness ==
    /\ final.returned
    /\ \E s \in ChannelSchemas :
         /\ <<"a">> \in DOMAIN s.properties
         /\ s.properties[<<"a">>].type = "string"
         /\ s.properties[<<"a">>].required = <<<<"b">>>>
         /\ s.required # <<>>

\* ------------------------------------------- validation of payloads (query)

\* Bound: the number of rows of the frame a validated document was built from
MaxDocRows == 2

\* Rows of the bank sheet for the fields b and a.b: a constrained text field
\* (Regex, Length) or an enumerated one (Allowed Values), with or without Notes
DocRows ==
    RowsOf({FieldB, FieldAB}, {"mandatory", "optional"}, {""},
           {"", " ^[0-9]+$ "}, {"", "2"}, {<<>>}, {"", "n"})
    \cup
    RowsOf({FieldB, FieldAB}, {"mandatory", "optional"}, {""},
           {""}, {""}, {<<"1", "|", "x">>}, {"", "n"})

DocRowSeqs == UNION { [1..n -> DocRows] : n \in 0..MaxDocRows }

\* The string values and the nested objects a payload holds
PayloadStrings == { StrVal(<<"1">>), StrVal(<<"x">>), StrVal(<<"1", "1", "1">>) }

PayloadObjects ==
    { ObjVal(EmptyMap) } \cup { ObjVal([k \in {<<"b">>} |-> v]) : v \in PayloadStrings }

Payloads ==
    { p \in UNION { [ks -> PayloadStrings \cup PayloadObjects] :
                      ks \in SUBSET {<<"a">>, <<"b">>} } :
        /\ <<"b">> \in DOMAIN p => p[<<"b">>] \in PayloadStrings
        /\ <<"a">> \in DOMAIN p => p[<<"a">>] \in PayloadObjects \cup {StrVal(<<"1">>)} }

\* The documents on disk are those one compile run wrote
InitValidate ==
    /\ \E rows \in DocRowSeqs : disk = write_schemas(build_schemas(rows), EmptyMap)
    /\ corridors = EmptyDict
    /\ nrows = 0
    /\ declared = {}
    /\ final = NotReturned
    /\ index = NotBuilt
    /\ request = NoCall
    /\ response = NoCall
    /\ NoIngest
    /\ callers = <<>>
    /\ conversations = EmptyMap

\* One call of validate_payload (a behaviour holds one call: the call reads the
\* disk and returns, and leaves nothing behind for a later call)
ValidatePayload ==
    /\ request = NoCall
    /\ \E payload \in Payloads, country \in {"united states", "germany"} :
         /\ request' = [op |-> "validate", payload |-> payload, currency |-> " usd ",
                        country |-> country, method |-> None, channel |-> None]
         /\ response' = validate_payload(disk, payload, " usd ", country, None, None)
    /\ UNCHANGED <<buildVars, disk, index, ingestVars, callers, conversations>>

NextValidate == ValidatePayload

SpecValidate == InitValidate /\ [][NextValidate]_vars

\* The document of the corridor the request names, by the name its file has on disk
RequestKey ==
    <<"USD", IF request.country = "united states" THEN "UNITED STATES" ELSE "GERMANY">>

Validated == request # NoCall /\ request.op = "validate"

\* The bank/local channel schema of the requested document
TargetSchema == disk[RequestKey].payout_methods.val["bank"].channels.val["local"]

LengthsOK(node, value) ==
    value.t = "string" =>
        /\ node.minLength # 0 => Len(value.s) >= node.minLength
        /\ node.maxLength # 0 => Len(value.s) <= node.maxLength

RECURSIVE Filled(_, _, _)
\* The value holds every required field, and every declared field it holds has a
\* value of the declared type that satisfies its pattern and enum (and, with
\* `lengths`, its minLength/maxLength), at every level
Filled(node, value, lengths) ==
    /\ TypeOK(node.type, value)
    /\ lengths => LengthsOK(node, value)
    /\ node.pattern # None => value.t = "string" /\ PatternMatches(node.pattern, value.s)
    /\ node.enum # <<>> => value.t = "string" /\ value.s \in SeqToSet(node.enum)
    /\ value.t = "object" =>
         /\ SeqToSet(node.required) \subseteq DOMAIN value.o
         /\ \A k \in (DOMAIN value.o) \cap (DOMAIN node.properties) :
              Filled(node.properties[k], value.o[k], lengths)

ResponseValid == response.raised = None /\ response.valid /\ response.errors = {}

\* C3 (as claimed): a payload holding every required field with a value that
\* satisfies the field's pattern and enum validates as valid with no error.
C3_RoundTripPatternEnum ==
    (Validated /\ RequestKey \in DOMAIN disk
        /\ Filled(TargetSchema, ObjVal(request.payload), FALSE))
    => ResponseValid

\* C3 (amended): a payload holding every required field, whose declared fields have
\* values satisfying type, minLength/maxLength, pattern and enum, validates as valid
\* with no error.
C3_RoundTripAllConstraints ==
    (Validated /\ RequestKey \in DOMAIN disk
        /\ Filled(TargetSchema, ObjVal(request.payload), TRUE))
    => ResponseValid

\* C3 witness: a valid response for a payload that fills a required top-level
\* field with a pattern and a required nested field.
C3_Witness ==
    /\ Validated /\ RequestKey \in DOMAIN disk
    /\ Filled(TargetSchema, ObjVal(request.payload), TRUE)
    /\ TargetSchema.required = <<<<"b">>>>
    /\ TargetSchema.properties[<<"b">>].pattern # None
    /\ <<"a">> \in DOMAIN TargetSchema.properties
    /\ TargetSchema.properties[<<"a">>].required = <<<<"b">>>>
    /\ <<"a">> \in DOMAIN request.payload
    /\ response.valid

\* The required fields missing from the payload: <<path of the object, field>>
MissingRequired(schema, payload) ==
    { <<<<>>, name>> : name \in SeqToSet(schema.required) \ DOMAIN payload }
    \cup
    UNION { { <<<<k>>, name>> :
                name \in SeqToSet(schema.properties[k].required) \ DOMAIN payload[k].o } :
            k \in { j \in (DOMAIN payload) \cap (DOMAIN schema.properties) :
                      payload[j].t = "object" } }

\* C4 (as claimed): for every required field missing from the payload, at the top
\* level or in a nested object, there is exactly one error with validator "required"
\* naming it, and that error carries the description and pattern the schema declares
\* for that field.
C4_RequiredErrorCarriesFieldMeta ==
    (Validated /\ RequestKey \in DOMAIN disk) =>
        \A miss \in MissingRequired(TargetSchema, request.payload) :
            LET hits == { e \in response.errors :
                            e.validator = "required" /\ e.path = miss[1]
                            /\ e.field = miss[2] }
                field == NodeAt(TargetSchema, miss[1]).properties[miss[2]]
            IN  /\ Cardinality(hits) = 1
                /\ \A e \in hits : /\ e.schema_description = field.description
                                   /\ e.schema_pattern = field.pattern

\* C5: a payload whose only violation is one value that does not match its
\* field's pattern gets valid=false and exactly one error, of validator "pattern",
\* with the pattern and the description of the schema fragment of that field.
C5_PatternErrorCarriesFragment ==
    (Validated /\ RequestKey \in DOMAIN disk) =>
        LET engine == iter_errors(TargetSchema, ObjVal(request.payload), <<>>)
        IN  (Cardinality(engine) = 1 /\ \A e \in engine : e.validator = "pattern") =>
                /\ response.raised = None
                /\ ~response.valid
                /\ Cardinality(response.errors) = 1
                /\ \A d \in response.errors :
                     LET fragment == NodeAt(TargetSchema, d.path)
                     IN  /\ d.validator = "pattern"
                         /\ \E e \in engine : e.path = d.path
                         /\ fragment.pattern # None
                         /\ d.schema_pattern = fragment.pattern
                         /\ d.schema_description = fragment.description

\* C5 witness: the single error is a pattern error of the nested field a.b, whose
\* fragment has a description.
C5_Witness ==
    /\ Validated /\ RequestKey \in DOMAIN disk
    /\ Cardinality(response.errors) = 1
    /\ \E d \in response.errors :
         /\ d.validator = "pattern"
         /\ d.path = <<<<"a">>, <<"b">>>>
         /\ d.schema_pattern = "^[0-9]+$"
         /\ d.schema_description # <<>>

\* C6: a call for a corridor that has no document on disk returns valid=false with
\* a non-empty error list that reports the missing schema, and raises nothing.
C6_SchemaNotFoundIsData ==
    (Validated /\ RequestKey \notin DOMAIN disk) =>
        /\ response.raised = None
        /\ ~response.valid
        /\ response.errors # {}
        /\ \A d \in response.errors : d.message.text = "No schema found for"

\* C6 witness: the directory holds a document, and the call named another corridor.
C6_Witness ==
    /\ Validated
    /\ disk # EmptyMap
    /\ RequestKey \notin DOMAIN disk
    /\ ~response.valid

\* ------------------------------------------------ selection (query time)

\* Bounds: the payout methods of a document, and the channels of a method
MaxMethods == 2

MaxChannels == 2

\* The sequences without repetition of at most n of the names
OrderedSubsets(names, n) ==
    { q \in UNION { [1..k -> names] : k \in 0..n } :
        \A i, j \in DOMAIN q : i # j => q[i] # q[j] }

\* The schema of every channel of these documents: the field b is required
SelChannelSchema ==
    [ObjectNode EXCEPT
        !.properties = [k \in {<<"b">>} |-> [ObjectNode EXCEPT !.type = "string"]],
        !.required = <<<<"b">>>>]

SelBlock(channel_keys, default_channel) ==
    [default_channel |-> default_channel,
     channels |-> [keys |-> channel_keys,
                   val |-> [c \in SeqToSet(channel_keys) |-> SelChannelSchema]]]

SelDocument(has, method_keys, channel_keys, default_channel) ==
    [currency |-> "USD", country |-> "UNITED STATES", has_payout_methods |-> has,
     root |-> [SelChannelSchema EXCEPT !.type = None],
     payout_methods |->
        [keys |-> method_keys,
         val |-> [m \in SeqToSet(method_keys) |-> SelBlock(channel_keys, default_channel)]]]

SelKey == <<"USD", "UNITED STATES">>

\* The directory holds one document: any methods in any order, each with the same
\* channels in any order and any default_channel, or no "payout_methods" key at all
InitSelect ==
    /\ \E method_keys \in OrderedSubsets({"bank", "wallet", "card"}, MaxMethods),
          channel_keys \in OrderedSubsets({"local", "wire", "default"}, MaxChannels),
          default_channel \in {None, "local", "wire", "sepa"},
          has \in BOOLEAN :
         /\ ~has => (method_keys = <<>> /\ channel_keys = <<>> /\ default_channel = None)
         /\ disk = [k \in {SelKey} |->
                      SelDocument(has, method_keys, channel_keys, default_channel)]
    /\ corridors = EmptyDict
    /\ nrows = 0
    /\ declared = {}
    /\ final = NotReturned
    /\ index = NotBuilt
    /\ request = NoCall
    /\ response = NoCall
    /\ NoIngest
    /\ callers = <<>>
    /\ conversations = EmptyMap

MethodHints == {None, "", "bank", "WALLET", "cash"}

ChannelHints == {None, "", "wire", "Local", "swift"}

\* One call of _select_method on the document
SelectMethod ==
    /\ request = NoCall
    /\ \E hint \in MethodHints :
         LET m == select_method(SchemaMethods(disk[SelKey]), hint)
         IN  /\ request' = [op |-> "select_method", method |-> hint]
             /\ response' = [op |-> "select_method", found |-> m.found, name |-> m.name]
    /\ UNCHANGED <<buildVars, disk, index, ingestVars, callers, conversations>>

\* One call of _select_channel on a method block of the document
SelectChannel ==
    /\ request = NoCall
    /\ \E of \in DOMAIN disk[SelKey].payout_methods.val, hint \in ChannelHints :
         LET c == select_channel(disk[SelKey].payout_methods.val[of], hint)
         IN  /\ request' = [op |-> "select_channel", of |-> of, channel |-> hint]
             /\ response' = [op |-> "select_channel", found |-> c.found, name |-> c.name]
    /\ UNCHANGED <<buildVars, disk, index, ingestVars, callers, conversations>>

\* One call of validate_payload with a method hint and a channel hint
ValidateHinted ==
    /\ request = NoCall
    /\ \E payload \in { EmptyMap, [k \in {<<"b">>} |-> StrVal(<<"1">>)] },
          method \in MethodHints, channel \in ChannelHints :
         /\ request' = [op |-> "validate", payload |-> payload, currency |-> "USD",
                        country |-> "UNITED STATES", method |-> method,
                        channel |-> channel]
         /\ response' =
              validate_payload(disk, payload, "USD", "UNITED STATES", method, channel)
    /\ UNCHANGED <<buildVars, disk, index, ingestVars, callers, conversations>>

NextSelect == SelectMethod \/ SelectChannel \/ ValidateHinted

SpecSelect == InitSelect /\ [][NextSelect]_vars

SelDoc == disk[SelKey]

Given(hint) == hint # None /\ hint # ""

\* An error of the response whose message lists exactly these names
Enumerates(names) ==
    \E d \in response.errors :
        "choices" \in DOMAIN d.message /\ d.message.choices = SortedNames(names)

\* C7 (as claimed): a method hint that names no declared method, or a channel hint
\* that names no channel of the hinted method, gets valid=false with an error that
\* enumerates the declared methods (the method's channels), and the payload is not
\* validated against another method or channel.  (Stated for the documents whose
\* methods all have a channel, as the Schema Builder writes them.)
C7_SelectionUnavailable ==
    (Validated /\ SelDoc.has_payout_methods
        /\ \A m \in DOMAIN SelDoc.payout_methods.val :
              SelDoc.payout_methods.val[m].channels.keys # <<>>) =>
        LET methods == SelDoc.payout_methods
            bad_method == Given(request.method)
                          /\ LowerText(request.method) \notin SeqToSet(methods.keys)
            hinted == methods.val[LowerText(request.method)]
            bad_channel == /\ Given(request.method) /\ ~bad_method
                           /\ Given(request.channel)
                           /\ LowerText(request.channel) \notin SeqToSet(hinted.channels.keys)
        IN  /\ bad_method =>
                 /\ ~response.valid
                 /\ response.method = None /\ response.channel = None
                 /\ Enumerates(methods.keys)
            /\ bad_channel =>
                 /\ ~response.valid
                 /\ response.channel = None
                 /\ Enumerates(hinted.channels.keys)

\* C8: _select_method returns the hinted method if the hint (compared in lower
\* case) is a declared method, else "bank" if declared, else the first declared
\* method, and (None, None) if the document declares no method.
C8_MethodSelectionOrder ==
    (request # NoCall /\ request.op = "select_method") =>
        LET keys == SchemaMethods(SelDoc).keys
            hint == request.method
        IN  IF keys = <<>> THEN ~response.found /\ response.name = None
            ELSE /\ response.found
                 /\ response.name =
                      IF Given(hint) /\ LowerText(hint) \in SeqToSet(keys)
                      THEN LowerText(hint)
                      ELSE IF "bank" \in SeqToSet(keys) THEN "bank"
                      ELSE keys[1]

\* C8 witness: no hint, "bank" declared second: "bank" is returned.
C8_Witness ==
    /\ request # NoCall /\ request.op = "select_method"
    /\ request.method = None
    /\ SelDoc.has_payout_methods /\ SelDoc.payout_methods.keys = <<"wallet", "bank">>
    /\ response.name = "bank"

\* C9: _select_channel returns the hinted channel if the hint (compared in lower
\* case) is a channel of the method, else the declared default_channel if it names
\* one, else "local" if present, else the first channel, and (None, None) if the
\* method has no channel.
C9_ChannelSelectionOrder ==
    (request # NoCall /\ request.op = "select_channel") =>
        LET block == SelDoc.payout_methods.val[request.of]
            keys == block.channels.keys
            hint == request.channel
        IN  IF keys = <<>> THEN ~response.found /\ response.name = None
            ELSE /\ response.found
                 /\ response.name =
                      IF Given(hint) /\ LowerText(hint) \in SeqToSet(keys)
                      THEN LowerText(hint)
                      ELSE IF block.default_channel \in SeqToSet(keys)
                      THEN block.default_channel
                      ELSE IF "local" \in SeqToSet(keys) THEN "local"
                      ELSE keys[1]

\* C9 witness: no hint, channels wire and local, no declared default: "local".
C9_Witness ==
    /\ request # NoCall /\ request.op = "select_channel"
    /\ request.channel = None
    /\ SelDoc.payout_methods.val[request.of].channels.keys = <<"wire", "local">>
    /\ SelDoc.payout_methods.val[request.of].default_channel = None
    /\ response.name = "local"

\* ------------------------------------------------- resolution (query time)

\* Bound: the number of schema files in the directory
MaxFiles == 3

Cur_USD == <<"U", "S", "D">>
Cur_EUR == <<"E", "U", "R">>
Country_US == <<"U", "N", "I", "T", "E", "D", " ", "S", "T", "A", "T", "E", "S">>
Country_USA == <<"U", "N", "I", "T", "E", "D", " ", "S", "T", "A", "T", "E", "S", " ", "O", "F", " ", "A", "M", "E", "R", "I", "C", "A">>
Country_Thailand == <<"T", "H", "A", "I", "L", "A", "N", "D">>
Country_Canada == <<"C", "A", "N", "A", "D", "A">>
Country_Germany == <<"G", "E", "R", "M", "A", "N", "Y">>
Country_France == <<"F", "R", "A", "N", "C", "E">>

\* The schema files a directory may hold, each named by <<currency, country>>
FilePool ==
    { <<Cur_USD, Country_US>>, <<Cur_USD, Country_USA>>, <<Cur_USD, Country_Thailand>>,
      <<Cur_USD, Country_Canada>>, <<Cur_EUR, Country_Germany>>,
      <<Cur_EUR, Country_France>> }

\* "What fields are mandatory for a USD bank transfer to the United States?"
Query_USD_US ==
    <<"W", "h", "a", "t", " ", "f", "i", "e", "l", "d", "s", " ", "a", "r", "e", " ", "m", "a", "n", "d", "a", "t", "o", "r", "y", " ", "f", "o", "r", " ", "a", " ", "U", "S", "D", " ", "b", "a", "n", "k", " ", "t", "r", "a", "n", "s", "f", "e", "r", " ", "t", "o", " ", "t", "h", "e", " ", "U", "n", "i", "t", "e", "d", " ", "S", "t", "a", "t", "e", "s", "?">>

\* "USD vs EUR"
Query_USD_EUR == <<"U", "S", "D", " ", "v", "s", " ", "E", "U", "R">>

\* "payout to germany"
Query_Germany == <<"p", "a", "y", "o", "u", "t", " ", "t", "o", " ", "g", "e", "r", "m", "a", "n", "y">>

Queries == { Query_USD_US, Query_USD_EUR, Query_Germany }

\* The directory holds any files; what a file holds is not read by the resolver
InitResolve ==
    /\ \E files \in SUBSET FilePool :
         /\ Cardinality(files) <= MaxFiles
         /\ disk = [f \in files |-> None]
    /\ corridors = EmptyDict
    /\ nrows = 0
    /\ declared = {}
    /\ final = NotReturned
    /\ index = NotBuilt
    /\ request = NoCall
    /\ response = NoCall
    /\ NoIngest
    /\ callers = <<>>
    /\ conversations = EmptyMap

\* The first call of _corridor_index: glob yields the files in some order, and
\* lru_cache keeps the index that is built from them
BuildIndex ==
    /\ ~index.built
    /\ \E files \in OrderedSubsets(DOMAIN disk, Cardinality(DOMAIN disk)) :
         /\ Len(files) = Cardinality(DOMAIN disk)
         /\ index' = [built |-> TRUE] @@ corridor_index(files)
    /\ UNCHANGED <<buildVars, disk, request, response, ingestVars, callers, conversations>>

\* One call of _resolve_corridors on the cached index
Resolve ==
    /\ index.built
    /\ request = NoCall
    /\ \E query \in Queries :
         /\ request' = [op |-> "resolve", query |-> query]
         /\ response' = [op |-> "resolve",
                         ranked |-> ScoredCandidates(index, query),
                         result |-> resolve_corridors(index, query)]
    /\ UNCHANGED <<buildVars, disk, index, ingestVars, callers, conversations>>

\* One call of _select_comparison_corridors(query, count=2) on the cached index
ResolvePair ==
    /\ index.built
    /\ request = NoCall
    /\ \E query \in Queries :
         /\ request' = [op |-> "resolve_pair", query |-> query]
         /\ LET Answer(choice) == [op |-> "resolve_pair", picks |-> choice.picks,
                                   result |-> choice.selected]
            IN  response' = Answer(ComparisonChoice(index, query, 2))
    /\ UNCHANGED <<buildVars, disk, index, ingestVars, callers, conversations>>

NextResolve == BuildIndex \/ Resolve

SpecResolve == InitResolve /\ [][NextResolve]_vars

NextPair == BuildIndex \/ ResolvePair

SpecPair == InitResolve /\ [][NextPair]_vars

Resolved == request # NoCall /\ request.op = "resolve"

\* C10 (as claimed): the result is in non-increasing order of score, and for the
\* query about a USD transfer to the United States every index that holds a USD
\* corridor whose country contains UNITED STATES gets such a corridor first.
C10_RankedBestFirst ==
    Resolved =>
        /\ \A i, j \in DOMAIN response.ranked :
             i < j => response.ranked[i].score >= response.ranked[j].score
        /\ response.result = [i \in DOMAIN response.ranked |-> response.ranked[i].corridor]
        /\ (request.query = Query_USD_US
            /\ \E f \in DOMAIN disk : f[1] = Cur_USD /\ Contains(f[2], Country_US))
           => /\ response.result # <<>>
              /\ response.result[1].currency = Cur_USD
              /\ Contains(response.result[1].country, Country_US)

\* The corridors of `cands` with the highest score for the query
TopScoring(cands, query) ==
    { c \in cands : \A d \in cands :
        score_corridor(d, Lower(query)) <= score_corridor(c, Lower(query)) }

\* C11 (as claimed): for every code of the query that chooses a corridor, the
\* chosen corridor is a top-scoring one of the same-currency candidates that match
\* the preference of the code, and a top-scoring same-currency candidate when the
\* table has no entry for the code or no candidate matches the preference.
C11_PairPrefersTopScoring ==
    (request # NoCall /\ request.op = "resolve_pair") =>
        \A k \in DOMAIN response.picks :
            LET pick == response.picks[k]
                prefs == PREFERRED_COUNTRIES(pick.code)
                cands == SeqToSet(pick.candidates)
                matching == { c \in cands : PreferenceRank(c, prefs) <= Len(prefs) }
            IN  /\ pick.chosen \in SeqToSet(response.result)
                /\ pick.chosen.currency = pick.code
                /\ IF matching # {} THEN pick.chosen \in TopScoring(matching, request.query)
                   ELSE pick.chosen \in TopScoring(cands, request.query)

\* ------------------------------------------- classification of cells (compile)

\* Bound: the number of workbooks compiled in the process
MaxWorkbooks == 2

\* The texts of the Mandatory column the classifier is given
MandatoryTexts ==
    { <<>>,
      <<" ">>,
      <<"n", "a", "n">>,
      <<"O", "p", "t", "i", "o", "n", "a", "l">>,
      <<"R", "e", "q", "u", "i", "r", "e", "d", " ", "i", "f", " ", "b", "e", "n", "e", "f", "i", "c", "i", "a", "r", "y", " ", "t", "y", "p", "e", " ", "i", "s", " ", "i", "n", "d", "i", "v", "i", "d", "u", "a", "l">>,
      <<"Y", "e", "s">>,
      <<"y">>,
      <<"T", "R", "U", "E">>,
      <<"y", "e", "s", " ", "p", "l", "e", "a", "s", "e">>,
      <<"M", "a", "n", "d", "a", "t", "o", "r", "y">>,
      <<"N", "o", "t", " ", "r", "e", "q", "u", "i", "r", "e", "d">>,
      <<"M", "u", "s", "t", " ", "p", "r", "o", "v", "i", "d", "e", " ", "I", "D">>,
      <<"m", "u", "s", "t", " ", "b", "e", " ", "s", "i", "g", "n", "e", "d">>,
      <<"C", "o", "n", "d", "i", "t", "i", "o", "n", "a", "l">>,
      <<"C", "o", "n", "d", "i", "t", "i", "o", "n", "a", "l", "l", "y">>,
      <<"O", "p", "t", "i", "o", "n", "a", "l", ",", " ", "r", "e", "q", "u", "i", "r", "e", "d", " ", "i", "f", " ", "x">>,
      <<"N", "o">>,
      <<"M", "a", "n", "d", "a", "t", "o", "r", "y", " ", "u", "n", "l", "e", "s", "s", " ", "e", "x", "e", "m", "p", "t">>,
      <<"\t", "R", "e", "q", "u", "i", "r", "e", "d", "\n">>,
      <<"C", "o", "n", "d", "i", "t", "i", "o", "n", "a", "l", ":", " ", "m", "a", "n", "d", "a", "t", "o", "r", "y", " ", "f", "o", "r", " ", "f", "i", "r", "m", "s">>,
      <<"n", "/", "a">> }

HexBytes == {<<"0", "0">>, <<"1", "9">>, <<"1", "A">>, <<"2", "E">>, <<"7", "1">>,
             <<"C", "C">>, <<"F", "F">>}

\* The colours of the fills: ARGB and RGB texts, and a theme colour
Green == Color(<<"F", "F", "2", "E", "C", "C", "7", "1">>, <<>>)
Blue == Color(<<"F", "F", "0", "0", "0", "0", "F", "F">>, <<>>)
Orange == Color(<<"F", "F", "A", "5", "0", "0">>, <<>>)
Grey == Color(<<"f", "f", "8", "0", "8", "0", "8", "0">>, <<>>)
ThemeColor == Color(<<>>, <<"4">>)

FillColors ==
    { Color(<<"F", "F">> \o r \o g \o b, <<>>) : r \in HexBytes, g \in HexBytes, b \in HexBytes }
    \cup { Grey, Orange, ThemeColor }

\* The cells whose colour is classified
Cells ==
    { Cell("solid", c) : c \in FillColors }
    \cup { Cell(None, c) : c \in {Color(<<"0", "0", "0", "0", "0", "0", "0", "0">>, <<>>), Green} }
    \cup { Cell("gray125", Green) }

\* The Instructions sheets of the workbooks: the rows 2, 3, 4 (colour cell, label)
LegendRows ==
    { << [color |-> Green, label |-> <<"M", "a", "n", "d", "a", "t", "o", "r", "y">>],
         [color |-> Orange, label |-> <<"C", "o", "n", "d", "i", "t", "i", "o", "n", "a", "l">>],
         [color |-> Grey, label |-> <<"L", "e", "g", "e", "n", "d">>] >>,
      << [color |-> Blue, label |-> <<"R", "e", "q", "u", "i", "r", "e", "d">>],
         [color |-> Green, label |-> <<" ", "o", "p", "t", "i", "o", "n", "a", "l", " ">>],
         [color |-> Orange, label |-> <<"C", "o", "n", "d", "i", "t", "i", "o", "n", "a", "l">>] >> }

\* The Field cells and Mandatory texts of the rows of a flat sheet
RowCells ==
    { Cell("solid", Green), Cell("solid", Blue), Cell("solid", Orange),
      Cell("solid", Grey), Cell("solid", ThemeColor), Cell(None, Green) }

RowTexts ==
    { <<>>,
      <<"O", "p", "t", "i", "o", "n", "a", "l">>,
      <<"Y", "e", "s">>,
      <<"R", "e", "q", "u", "i", "r", "e", "d", " ", "i", "f", " ", "b", "e", "n", "e", "f", "i", "c", "i", "a", "r", "y", " ", "t", "y", "p", "e", " ", "i", "s", " ", "i", "n", "d", "i", "v", "i", "d", "u", "a", "l">>,
      <<"n", "/", "a">> }

\* The process compiles some workbooks; no run of ingest has started
InitClassify ==
    /\ \E n \in 1..MaxWorkbooks :
         /\ workbooks \in [1..n -> { [legend |-> rows] : rows \in LegendRows }]
         /\ ingests = [w \in 1..n |-> [pc |-> "start"]]
    /\ COLOR_STATE_MAP = EmptyMap
    /\ corridors = EmptyDict
    /\ nrows = 0
    /\ declared = {}
    /\ final = NotReturned
    /\ disk = EmptyMap
    /\ index = NotBuilt
    /\ request = NoCall
    /\ response = NoCall
    /\ callers = <<>>
    /\ conversations = EmptyMap

\* ingest(w) calls build_color_state_map: the map is cleared and filled again
BuildColorStateMap ==
    \E w \in DOMAIN ingests :
        /\ ingests[w].pc = "start"
        /\ COLOR_STATE_MAP' = LegendOf(workbooks[w].legend)
        /\ ingests' = [ingests EXCEPT ![w].pc = "sheets"]
        /\ UNCHANGED <<buildVars, disk, index, request, response, workbooks, callers, conversations>>

\* One call of mandatory_state_from_text
ClassifyText ==
    /\ request = NoCall
    /\ \E text \in MandatoryTexts :
         /\ request' = [op |-> "text", text |-> text]
         /\ response' = [op |-> "text", state |-> mandatory_state_from_text(text)]
    /\ UNCHANGED <<buildVars, disk, index, ingestVars, callers, conversations>>

\* One call of mandatory_state_from_color while ingest(w) normalises its sheets
ClassifyColor ==
    \E w \in DOMAIN ingests :
        /\ ingests[w].pc = "sheets"
        /\ request = NoCall
        /\ \E cell \in Cells :
             /\ request' = [op |-> "color", workbook |-> w, cell |-> cell, worksheet |-> TRUE]
             /\ response' = [op |-> "color",
                             mapped |-> color_key(cell.color) \in DOMAIN COLOR_STATE_MAP,
                             color_state |-> mandatory_state_from_color(cell)]
        /\ UNCHANGED <<buildVars, disk, index, ingestVars, callers, conversations>>

\* annotate_mandatory_states on one row of a flat sheet of workbook w (worksheet:
\* whether the styled worksheet could be opened)
AnnotateRow ==
    \E w \in DOMAIN ingests :
        /\ ingests[w].pc = "sheets"
        /\ request = NoCall
        /\ \E cell \in RowCells, text \in RowTexts, worksheet \in BOOLEAN :
             LET color_state == IF worksheet THEN mandatory_state_from_color(cell)
                                ELSE "optional"
                 textual_state == mandatory_state_from_text(text)
             IN  /\ request' = [op |-> "annotate", workbook |-> w, cell |-> cell,
                                text |-> text, worksheet |-> worksheet]
                 /\ response' = [op |-> "annotate", color_state |-> color_state,
                                 textual_state |-> textual_state,
                                 state |-> CombineStates(color_state, textual_state)]
        /\ UNCHANGED <<buildVars, disk, index, ingestVars, callers, conversations>>

\* ingest(w) returns
IngestReturn ==
    \E w \in DOMAIN ingests :
        /\ ingests[w].pc = "sheets"
        /\ ingests' = [ingests EXCEPT ![w].pc = "done"]
        /\ UNCHANGED <<buildVars, disk, index, request, response, COLOR_STATE_MAP,
                       workbooks, callers, conversations>>

NextClassify ==
    BuildColorStateMap \/ ClassifyText \/ ClassifyColor \/ AnnotateRow \/ IngestReturn

SpecClassify == InitClassify /\ [][NextClassify]_vars

TextCall == request # NoCall /\ request.op = "text"

\* C12 (as claimed): the text classifier applies, in this order: "optional" in
\* the text -> optional; a conditional phrase -> conditional; an affirmative token
\* or a "must <verb>" phrase -> mandatory; every other text -> empty.
C12_TextRulesAsClaimed ==
    TextCall =>
        LET text == Lower(CleanChars(request.text))
            opt == Contains(text, <<"o", "p", "t", "i", "o", "n", "a", "l">>)
            cond == ContainsAny(text, CONDITIONAL_PHRASES)
            aff == \/ AFFIRMATIVE_TOKEN(text) \/ MANDATORY_TOKEN(text)
                   \/ ContainsAny(text, MUST_MANDATORY_PHRASES)
        IN  /\ opt => response.state = "optional"
            /\ (~opt /\ cond) => response.state = "conditional"
            /\ (~opt /\ ~cond /\ aff) => response.state = "mandatory"
            /\ (~opt /\ ~cond /\ ~aff) => response.state = ""

\* C12 (amended): the text classifier applies, in this order: "optional" in the
\* text -> optional; a conditional phrase -> conditional; one of the nine "must
\* <verb>" phrases, the whole text "yes", "y" or "true", or "mandatory" or
\* "required" in the text -> mandatory; a text that starts with "conditional" ->
\* conditional; every other text -> empty.  "Optional" is optional and "Required
\* if beneficiary type is individual" is conditional.
C12_TextRules ==
    TextCall =>
        LET text == Lower(CleanChars(request.text))
            opt == Contains(text, <<"o", "p", "t", "i", "o", "n", "a", "l">>)
            cond == ContainsAny(text, CONDITIONAL_PHRASES)
            aff == \/ AFFIRMATIVE_TOKEN(text) \/ MANDATORY_TOKEN(text)
                   \/ ContainsAny(text, MUST_MANDATORY_PHRASES)
            pre == StartsWith(text, <<"c", "o", "n", "d", "i", "t", "i", "o", "n", "a", "l">>)
        IN  /\ opt => response.state = "optional"
            /\ (~opt /\ cond) => response.state = "conditional"
            /\ (~opt /\ ~cond /\ aff) => response.state = "mandatory"
            /\ (~opt /\ ~cond /\ ~aff /\ pre) => response.state = "conditional"
            /\ (~opt /\ ~cond /\ ~aff /\ ~pre) => response.state = ""
            /\ request.text = <<"O", "p", "t", "i", "o", "n", "a", "l">> => response.state = "optional"
            /\ request.text = <<"R", "e", "q", "u", "i", "r", "e", "d", " ", "i", "f", " ", "b", "e", "n", "e", "f", "i", "c", "i", "a", "r", "y", " ", "t", "y", "p", "e", " ", "i", "s", " ", "i", "n", "d", "i", "v", "i", "d", "u", "a", "l">> => response.state = "conditional"

\* C12 witness: a text with both "optional" and a conditional phrase is optional.
C12_Witness ==
    /\ TextCall
    /\ request.text = <<"O", "p", "t", "i", "o", "n", "a", "l", ",", " ", "r", "e", "q", "u", "i", "r", "e", "d", " ", "i", "f", " ", "x">>
    /\ response.state = "optional"

AnnotateCall == request # NoCall /\ request.op = "annotate"

\* C13: the requirement state of a row of a flat sheet is the colour verdict of
\* its Field cell when that is mandatory or conditional, the text verdict of the
\* Mandatory column when the colour verdict is optional and the text verdict is
\* not empty, and optional when both are absent; it is always one of mandatory,
\* conditional, optional.
C13_ColorWinsUnlessOptional ==
    AnnotateCall =>
        LET color == response.color_state
            textual == response.textual_state
        IN  /\ color \in {"mandatory", "conditional", "optional"}
            /\ textual = mandatory_state_from_text(request.text)
            /\ ~request.worksheet => color = "optional"
            /\ request.cell.fill_type # "solid" => color = "optional"
            /\ color \in {"mandatory", "conditional"} => response.state = color
            /\ (color = "optional" /\ textual # "") => response.state = textual
            /\ (color = "optional" /\ textual = "") => response.state = "optional"
            /\ response.state \in {"mandatory", "conditional", "optional"}

\* C13 witness: a Field cell whose colour is mandatory by the legend, in a row
\* whose Mandatory text says optional: the row is mandatory.
C13_Witness ==
    /\ AnnotateCall
    /\ response.color_state = "mandatory"
    /\ response.textual_state = "optional"
    /\ response.state = "mandatory"

ColorCall == request # NoCall /\ request.op = "color"

\* C20 (as claimed): a solid fill without a legend entry is mandatory when green
\* exceeds red and blue by the margin and conditional for every other colour;
\* optional is the verdict of a cell without a solid fill only; #2ECC71 is
\* mandatory.
C20_RgbFallbackAsClaimed ==
    (ColorCall /\ request.cell.fill_type = "solid" /\ ~response.mapped
        /\ Len(normalize_color_code(request.cell.color.rgb)) = 8) =>
        LET code == normalize_color_code(request.cell.color.rgb)
            r == HexByte(SubSeq(code, 3, 4))
            g == HexByte(SubSeq(code, 5, 6))
            b == HexByte(SubSeq(code, 7, 8))
        IN  /\ (g > r + GreenMargin /\ g > b + GreenMargin)
                 => response.color_state = "mandatory"
            /\ ~(g > r + GreenMargin /\ g > b + GreenMargin)
                 => response.color_state = "conditional"
            /\ response.color_state # "optional"
            /\ request.cell.color = Green => response.color_state = "mandatory"

\* C18 (as claimed): every cell of a workbook is classified by the legend of that
\* workbook alone, whether the workbooks are compiled one after the other or with
\* their steps interleaved.
C18_LegendIsolation ==
    ((ColorCall \/ AnnotateCall) /\ request.worksheet) =>
        response.color_state =
            StateFromColor(request.cell, LegendOf(workbooks[request.workbook].legend))

\* ------------------------------------------- the matrix sheets (compile)

MaxFieldRows == 2

NoFill == Cell(None, Color(<<"0", "0", "0", "0", "0", "0", "0", "0">>, <<>>))

\* The sub-columns of a corridor's column group, as pandas names them
MatrixKeys == <<<<"D", "e", "s", "c", "r", "i", "p", "t", "i", "o", "n">>,
               <<"R", "e", "g", "e", "x", "(", "L", "o", "c", "a", "l", ")">>,
               <<"D", "e", "s", "c", "r", "i", "p", "t", "i", "o", "n", ".", "1">>>>

\* The corridor labels of the first header row
MatrixCorridors == <<<<"U", "n", "i", "t", "e", "d", " ", "S", "t", "a", "t", "e", "s", " ", "(", "U", "S", "D", ")">>,
                    <<"I", "n", "d", "i", "a", " ", "(", "I", "N", "R", ")", " ", "W", "i", "r", "e">>>>

AllEmpty ==
    << [value |-> <<>>, fill |-> NoFill],
       [value |-> <<>>, fill |-> NoFill],
       [value |-> <<>>, fill |-> NoFill] >>

OnlyBlanks ==
    << [value |-> <<" ", " ">>, fill |-> NoFill],
       [value |-> <<"n", "a", "n">>, fill |-> NoFill],
       [value |-> <<>>, fill |-> NoFill] >>

OneBucket ==
    << [value |-> <<"M", "a", "n", "d", "a", "t", "o", "r", "y">>, fill |-> Cell("solid", Green)],
       [value |-> <<>>, fill |-> NoFill],
       [value |-> <<>>, fill |-> NoFill] >>

TwoBuckets ==
    << [value |-> <<"B", "e", "n", "e", "f", "i", "c", "i", "a", "r", "y", " ", "a", "c", "c", "o", "u", "n", "t">>, fill |-> NoFill],
       [value |-> <<"^", "[", "A", "-", "Z", "]", "{", "4", "}", "$">>, fill |-> NoFill],
       [value |-> <<"m", "u", "s", "t", " ", "b", "e", " ", "8", " ", "d", "i", "g", "i", "t", "s", " ", "f", "o", "r", " ", "w", "i", "r", "e", "s">>, fill |-> Cell("solid", Orange)] >>


\* The cells of a field row in one column group
CellGroups == { AllEmpty, OnlyBlanks, OneBucket, TwoBuckets }

\* The field rows of a matrix sheet: rows of a field, a "Notes" row, a row
\* without a field name
FieldRows ==
    { [field |-> <<"I", "B", "A", "N">>, alias |-> <<"b", "e", "n", "e", "f", "i", "c", "i", "a", "r", "y", "_", "i", "b", "a", "n">>, fill |-> Cell("solid", Orange),
       cells |-> <<a, b>>] : a \in CellGroups, b \in CellGroups }
    \cup { [field |-> <<"i", "b", "a", "n", " ">>, alias |-> <<"I", "B", "A", "N", " ", "c", "o", "d", "e">>, fill |-> NoFill,
            cells |-> <<TwoBuckets, AllEmpty>>],
           [field |-> <<"N", "o", "t", "e", "s">>, alias |-> <<>>, fill |-> NoFill,
            cells |-> <<TwoBuckets, OneBucket>>],
           [field |-> <<" ">>, alias |-> <<>>, fill |-> NoFill,
            cells |-> <<OneBucket, TwoBuckets>>] }

\* extract_matrix_records starts on a matrix sheet of a bank workbook whose
\* legend has been read
InitMatrix ==
    /\ \E n \in 1..MaxFieldRows, worksheet \in BOOLEAN :
         \E rows \in [1..n -> FieldRows] :
            workbooks = << [name |-> <<"B", "a", "n", "k">>, method |-> "bank",
                            worksheet |-> worksheet, corridor_names |-> MatrixCorridors,
                            keys |-> MatrixKeys, rows |-> rows] >>
    /\ ingests = << [pc |-> "rows", row |-> 0, records |-> <<>>] >>
    /\ COLOR_STATE_MAP = LegendOf(CHOOSE rows \in LegendRows : rows[1].color = Green)
    /\ corridors = EmptyDict
    /\ nrows = 0
    /\ declared = {}
    /\ final = NotReturned
    /\ disk = EmptyMap
    /\ index = NotBuilt
    /\ request = NoCall
    /\ response = NoCall
    /\ callers = <<>>
    /\ conversations = EmptyMap

\* One iteration of the loop over the field rows
ExtractRow ==
    /\ ingests[1].pc = "rows"
    /\ ingests[1].row < Len(workbooks[1].rows)
    /\ ingests' = [ingests EXCEPT
                     ![1].row = @ + 1,
                     ![1].records = @ \o ExtractFieldRow(workbooks[1], ingests[1].row + 1)]
    /\ UNCHANGED <<buildVars, disk, index, request, response, COLOR_STATE_MAP, workbooks,
                   callers, conversations>>

\* extract_matrix_records returns the frame of the records
ExtractReturn ==
    /\ ingests[1].pc = "rows"
    /\ ingests[1].row = Len(workbooks[1].rows)
    /\ ingests' = [ingests EXCEPT ![1].pc = "done"]
    /\ UNCHANGED <<buildVars, disk, index, request, response, COLOR_STATE_MAP, workbooks,
                   callers, conversations>>

NextMatrix == ExtractRow \/ ExtractReturn

SpecMatrix == InitMatrix /\ [][NextMatrix]_vars

MatrixRun == ingests # <<>> /\ "records" \in DOMAIN ingests[1]

\* The cleaned cells of the field row k in the column group ci
CleanedCells(k, ci) ==
    [j \in DOMAIN MatrixKeys |-> CleanChars(workbooks[1].rows[k].cells[ci][j].value)]

BaseChannel(ci) ==
    infer_channel(workbooks[1].method, MatrixCorridors[ci],
                  parse_corridor_label(MatrixCorridors[ci]).descriptor)

\* C14: every record the matrix normalizer emits for a field row, a corridor
\* and a channel has a non-empty cell of that row in the corridor's column
\* group whose sub-column was assigned to the channel; a row whose cells for a
\* corridor are all empty gives no record for the corridor; and no two records
\* have the same field row, corridor and channel.
C14_RecordsOnlyForFilledBuckets ==
    MatrixRun =>
        LET records == ingests[1].records
        IN  /\ \A i \in DOMAIN records :
                 \E j \in DOMAIN MatrixKeys :
                    /\ workbooks[1].rows[records[i].row].cells[records[i].corridor][j].value # <<>>
                    /\ CleanedCells(records[i].row, records[i].corridor)[j] # <<>>
                    /\ resolve_channel(MatrixKeys[j], BaseChannel(records[i].corridor))
                         = records[i].record.Channel
            /\ \A k \in 1..ingests[1].row, ci \in DOMAIN MatrixCorridors :
                 (\A j \in DOMAIN MatrixKeys : CleanedCells(k, ci)[j] = <<>>)
                    => ~\E i \in DOMAIN records : records[i].row = k /\ records[i].corridor = ci
            /\ \A i \in DOMAIN records, j \in DOMAIN records :
                 ( /\ records[i].row = records[j].row
                   /\ records[i].corridor = records[j].corridor
                   /\ records[i].record.Channel = records[j].record.Channel ) => i = j

\* C14 (witness): the normalizer has returned; a field row gave two records
\* (two channels) for one corridor and none for a corridor whose cells are empty.
C14_Witness ==
    /\ MatrixRun
    /\ ingests[1].pc = "done"
    /\ \E i \in DOMAIN ingests[1].records, j \in DOMAIN ingests[1].records :
         LET a == ingests[1].records[i]
             b == ingests[1].records[j]
         IN  /\ a.row = b.row /\ a.corridor = b.corridor
             /\ a.record.Channel # b.record.Channel
             /\ \E ci \in DOMAIN MatrixCorridors :
                  /\ \A c \in DOMAIN MatrixKeys : CleanedCells(a.row, ci)[c] = <<>>
                  /\ \E c \in DOMAIN MatrixKeys :
                       workbooks[1].rows[a.row].cells[ci][c].value # <<>>

\* ------------------------------------------------- the compile run (ingest)

\* infer_method(sheet_name)
infer_method(sheet_name) ==
    LET name == Lower(CleanChars(sheet_name))
    IN  IF name = <<>> THEN None
        ELSE IF Contains(name, <<"i", "n", "s", "t", "r", "u", "c", "t", "i", "o", "n">>) THEN None
        ELSE IF Contains(name, <<"b", "a", "n", "k">>) THEN "bank"
        ELSE IF Contains(name, <<"w", "a", "l", "l", "e", "t">>) THEN "wallet"
        ELSE IF Contains(name, <<"p", "r", "o", "x", "y">>) THEN "proxy"
        ELSE IF Contains(name, <<"c", "a", "r", "d">>) THEN "card"
        ELSE IF Contains(name, <<"c", "a", "s", "h">>) THEN "cash"
        ELSE None

\* normalize_sheet on a sheet with the expected columns and no styled worksheet:
\* the rows with their state, method and channel
normalize_sheet(sheet, method) ==
    LET default_channel == IF method \in DOMAIN DEFAULT_CHANNEL_BY_METHOD
                           THEN DEFAULT_CHANNEL_BY_METHOD[method] ELSE "default"
        Normalized(row) ==
            [row EXCEPT
                !.state = CombineStates("optional", mandatory_state_from_text(row.Mandatory)),
                !.Method = IF LowerText(clean_text(@)) = "" THEN method
                           ELSE LowerText(clean_text(@)),
                !.Channel = IF LowerText(clean_text(@)) = "" THEN default_channel
                            ELSE LowerText(clean_text(@))]
    IN  [i \in DOMAIN sheet.rows |-> Normalized(sheet.rows[i])]

\* normalized["Notes"].where(normalized["Notes"].astype(bool), sheet_name)
WithSheetNotes(rows, title) ==
    [i \in DOMAIN rows |-> [rows[i] EXCEPT !.Notes = IF @ = "" THEN title ELSE @]]

MaxSheets == 2

MaxSheetRows == 1

\* The rows of a flat sheet: a complete row, and rows without currency, without
\* country, without field name
SheetRows ==
    { [Currency |-> cur, Country |-> country, Method |-> "", Channel |-> "",
       Field |-> field, Mandatory |-> <<"Y", "e", "s">>, state |-> "", DataType |-> "",
       Length |-> "", Regex |-> "", Allowed |-> <<>>, Conditional |-> "", Notes |-> ""] :
      <<cur, country, field>> \in { <<"usd", "united states", FieldA>>,
                                    <<"", "united states", FieldA>>,
                                    <<"usd", " ", FieldA>>,
                                    <<"usd", "united states", <<" ">>>> } }

\* The sheets of a workbook: method sheets with some rows, and sheets that name
\* no payout method
Sheets ==
    { [name |-> <<"B", "a", "n", "k", " ", "T", "r", "a", "n", "s", "f", "e", "r", "s">>, title |-> "Bank", rows |-> rows] :
        rows \in UNION { [1..n -> SheetRows] : n \in 0..MaxSheetRows } }
    \cup { [name |-> name, title |-> "Other",
            rows |-> << CHOOSE row \in SheetRows : row.Currency = "usd"
                          /\ row.Country = "united states" /\ row.Field = FieldA >>] :
           name \in { <<"I", "n", "s", "t", "r", "u", "c", "t", "i", "o", "n", "s">>, <<"S", "u", "m", "m", "a", "r", "y">> } }

\* ingest starts on a workbook that exists; the schema directory is empty
InitIngest ==
    /\ \E n \in 1..MaxSheets : \E sheets \in [1..n -> Sheets] :
         workbooks = << [legend |-> <<>>, sheets |-> sheets] >>
    /\ ingests = << [pc |-> "start", sheet |-> 0, combined_frames |-> <<>>] >>
    /\ COLOR_STATE_MAP = EmptyMap
    /\ corridors = EmptyDict
    /\ nrows = 0
    /\ declared = {}
    /\ final = NotReturned
    /\ disk = EmptyMap
    /\ index = NotBuilt
    /\ request = NoCall
    /\ response = NoCall
    /\ callers = <<>>
    /\ conversations = EmptyMap

\* build_color_state_map and the opening of the workbook
IngestOpen ==
    /\ ingests[1].pc = "start"
    /\ "combined_frames" \in DOMAIN ingests[1]
    /\ COLOR_STATE_MAP' = LegendOf(workbooks[1].legend)
    /\ ingests' = [ingests EXCEPT ![1].pc = "sheets"]
    /\ UNCHANGED <<buildVars, disk, index, request, response, workbooks, callers, conversations>>

\* One iteration of `for sheet_name in excel_workbook.sheet_names`
IngestSheet ==
    /\ ingests[1].pc = "sheets"
    /\ "combined_frames" \in DOMAIN ingests[1]
    /\ ingests[1].sheet < Len(workbooks[1].sheets)
    /\ LET sheet == workbooks[1].sheets[ingests[1].sheet + 1]
           method == infer_method(sheet.name)
           normalized == normalize_sheet(sheet, method)
       IN  ingests' = [ingests EXCEPT
                         ![1].sheet = @ + 1,
                         ![1].combined_frames =
                             IF method = None \/ normalized = <<>> THEN @
                             ELSE Append(@, WithSheetNotes(normalized, sheet.title))]
    /\ UNCHANGED <<buildVars, disk, index, request, response, COLOR_STATE_MAP, workbooks,
                   callers, conversations>>

\* `if not combined_frames: raise ValueError("Workbook did not contain any data rows.")`
IngestAbort ==
    /\ ingests[1].pc = "sheets"
    /\ "combined_frames" \in DOMAIN ingests[1]
    /\ ingests[1].sheet = Len(workbooks[1].sheets)
    /\ ingests[1].combined_frames = <<>>
    /\ ingests' = [ingests EXCEPT ![1].pc = "raised"]
    /\ UNCHANGED <<buildVars, disk, index, request, response, COLOR_STATE_MAP, workbooks,
                   callers, conversations>>

\* The frames are merged, build_schemas compiles them and write_schemas writes
\* the documents; ingest returns
IngestCompile ==
    /\ ingests[1].pc = "sheets"
    /\ "combined_frames" \in DOMAIN ingests[1]
    /\ ingests[1].sheet = Len(workbooks[1].sheets)
    /\ ingests[1].combined_frames # <<>>
    /\ LET merged == Flatten(ingests[1].combined_frames)
       IN  /\ corridors' = FoldRows(EmptyDict, merged)
           /\ nrows' = Len(merged)
           /\ final' = [returned |-> TRUE, docs |-> build_schemas(merged)]
           /\ disk' = write_schemas(build_schemas(merged), disk)
    /\ ingests' = [ingests EXCEPT ![1].pc = "done"]
    /\ UNCHANGED <<declared, index, request, response, COLOR_STATE_MAP, workbooks, callers, conversations>>

NextIngest == IngestOpen \/ IngestSheet \/ IngestAbort \/ IngestCompile

SpecIngest == InitIngest /\ [][NextIngest]_vars

\* The rows of the method sheets of the workbook that no CompileSkip filter drops
UsableRows ==
    { <<s, i>> \in (DOMAIN workbooks[1].sheets) \X (1..MaxSheetRows + 1) :
        /\ infer_method(workbooks[1].sheets[s].name) # None
        /\ i \in DOMAIN workbooks[1].sheets[s].rows
        /\ ~RowSkipped(normalize_sheet(workbooks[1].sheets[s],
                                       infer_method(workbooks[1].sheets[s].name))[i]) }

IngestEnded ==
    /\ ingests # <<>>
    /\ "combined_frames" \in DOMAIN ingests[1]
    /\ ingests[1].pc \in {"raised", "done"}

\* C15: a compile run aborts exactly when no row of the workbook's method sheets
\* survives normalization and the skip filters (missing currency or country,
\* empty field name), and an aborted run writes no schema.
C15_AbortsExactlyWhenNoUsableRows ==
    IngestEnded =>
        /\ (ingests[1].pc = "raised") <=> (UsableRows = {})
        /\ ingests[1].pc = "raised" => disk = EmptyMap

\* ------------------------------------- the index and the schema directory

\* The schema files that are created and deleted while the process runs
IndexFilePool == { <<Cur_USD, Country_Thailand>>, <<Cur_EUR, Country_Germany>> }

\* The orders in which glob may yield the files of the directory
GlobOrders(dsk) ==
    { files \in OrderedSubsets(DOMAIN dsk, Cardinality(DOMAIN dsk)) :
        Len(files) = Cardinality(DOMAIN dsk) }

\* The process starts with some schema files in the directory and an empty cache
InitIndex ==
    /\ \E files \in SUBSET IndexFilePool : disk = [f \in files |-> None]
    /\ corridors = EmptyDict
    /\ nrows = 0
    /\ declared = {}
    /\ final = NotReturned
    /\ index = NotBuilt
    /\ request = NoCall
    /\ response = NoCall
    /\ NoIngest
    /\ callers = <<>>
    /\ conversations = EmptyMap

CreateDocument_refreshing ==
    \E f \in IndexFilePool \ DOMAIN disk :
        /\ disk' = Put(disk, f, None)
        /\ \E files \in GlobOrders(disk') :
             index' = IF index.built THEN [built |-> TRUE] @@ corridor_index(files)
                      ELSE index
        /\ UNCHANGED <<buildVars, request, response, ingestVars, callers, conversations>>

\* A schema document appears in the directory (a compile run wrote it)
CreateDocument ==
    \E f \in IndexFilePool \ DOMAIN disk :
        /\ disk' = Put(disk, f, None)
        /\ UNCHANGED <<buildVars, index, request, response, ingestVars, callers, conversations>>

\* A schema document is deleted from the directory
DeleteDocument ==
    \E f \in DOMAIN disk :
        /\ disk' = [g \in (DOMAIN disk) \ {f} |-> disk[g]]
        /\ UNCHANGED <<buildVars, index, request, response, ingestVars, callers, conversations>>

\* The caller triggers a rebuild: _corridor_index.cache_clear() empties the
\* cache, and the next call of _corridor_index builds the index again
RebuildIndex ==
    /\ index.built
    /\ index' = NotBuilt
    /\ UNCHANGED <<buildVars, disk, request, response, ingestVars, callers, conversations>>

\* One call of _resolve_corridors or of _select_comparison_corridors(query,
\* count=2) on the cached index
CachedCall ==
    /\ index.built
    /\ request = NoCall
    /\ \E query \in Queries, op \in {"resolve", "resolve_pair"} :
         \E resolved \in {resolve_corridors(index, query)} :
            /\ request' = [op |-> op, query |-> query]
            /\ response' = [op |-> op,
                            result |-> IF op = "resolve" THEN resolved
                                       ELSE ComparisonFrom(resolved, query, 2).selected]
    /\ UNCHANGED <<buildVars, disk, index, ingestVars, callers, conversations>>

NextIndex == BuildIndex \/ CachedCall \/ CreateDocument \/ DeleteDocument \/ RebuildIndex

SpecIndex == InitIndex /\ [][NextIndex]_vars

\* The corridors of an index
IndexCorridors(idx) == UNION { SeqToSet(idx.val[k]) : k \in DOMAIN idx.val }

\* C16: while the index is cached no step changes it, whatever is created or
\* deleted in the directory; a resolve / resolve_pair call returns corridors of
\* the cached index only; and an index that is built (the first time or after
\* an explicit rebuild) holds the documents that are in the directory then.
C16_IndexBuiltOnce ==
    [][ /\ (index.built /\ index'.built) => index' = index
        /\ (~index.built /\ index'.built) =>
              /\ \E files \in GlobOrders(disk) :
                    index' = [built |-> TRUE] @@ corridor_index(files)
              /\ IndexCorridors(index') =
                    { [currency |-> f[1], country |-> f[2]] : f \in DOMAIN disk }
        /\ (request = NoCall /\ request' # NoCall) =>
              /\ index.built
              /\ SeqToSet(response'.result) \subseteq IndexCorridors(index)
              /\ response'.result =
                    IF request'.op = "resolve" THEN resolve_corridors(index, request'.query)
                    ELSE select_comparison_corridors(index, request'.query, 2) ]_vars

\* C16 (witness): after the index was built a document was deleted and another
\* created, and a later resolve call has returned the corridor of the deleted
\* document and not the created one.
C16_Witness ==
    /\ index.built
    /\ request # NoCall
    /\ request.op \in {"resolve", "resolve_pair"}
    /\ \E i \in DOMAIN response.result :
         <<response.result[i].currency, response.result[i].country>> \notin DOMAIN disk
    /\ \E f \in DOMAIN disk :
         [currency |-> f[1], country |-> f[2]] \notin IndexCorridors(index)

\* ------------------------------------------- re-compile against readers

\* The corridors whose documents the compile runs write
DocKeys == { <<"USD", "UNITED STATES">>, <<"EUR", "GERMANY">> }

\* json.dump(schema, handle): the text of the document that compile run `run`
\* produced, in the pieces that reach the file one after the other
json_dump(run) == << <<"{", run>>, <<"payout_methods", run>>, <<"}", run>> >>

\* json.load(handle) on the text of a file: the document, or JSONDecodeError on
\* a text that is empty or cut short
json_load(text) ==
    IF Len(text) = 3 /\ text[1][1] = "{" /\ text[3][1] = "}" /\ text[1][2] = text[3][2]
       /\ text[2][2] = text[1][2]
    THEN [raised |-> None, run |-> text[2][2]]
    ELSE [raised |-> "JSONDecodeError", run |-> 0]

PreviousRun == 1

NewRun == 2

\* A compile run has written some documents; write_schemas of the next run is
\* about to write the documents of its corridors
InitRecompile ==
    /\ \E old \in (SUBSET DocKeys) \ {{}} : disk = [k \in old |-> json_dump(PreviousRun)]
    /\ \E todo \in OrderedSubsets(DocKeys, Cardinality(DocKeys)) :
         /\ todo # <<>>
         /\ ingests = << [pc |-> "next", todo |-> todo, buffered |-> <<>>,
                           written |-> {}] >>
    /\ workbooks = <<>>
    /\ COLOR_STATE_MAP = EmptyMap
    /\ corridors = EmptyDict
    /\ nrows = 0
    /\ declared = {}
    /\ final = NotReturned
    /\ index = NotBuilt
    /\ request = NoCall
    /\ response = NoCall
    /\ callers = <<>>
    /\ conversations = EmptyMap

\* schema_path.open("w"): the file of the next corridor is created or cut to
\* nothing; json.dump fills the buffer of the handle
WriteOpen ==
    /\ ingests[1].pc = "next"
    /\ ingests[1].todo # <<>>
    /\ disk' = Put(disk, Head(ingests[1].todo), <<>>)
    /\ ingests' = [ingests EXCEPT ![1].pc = "open", ![1].buffered = json_dump(NewRun)]
    /\ UNCHANGED <<buildVars, index, request, response, COLOR_STATE_MAP, workbooks, callers, conversations>>

\* The buffer of the handle overflows: its first piece reaches the file
WriteFlush ==
    /\ ingests[1].pc = "open"
    /\ ingests[1].buffered # <<>>
    /\ disk' = [disk EXCEPT ![Head(ingests[1].todo)] = Append(@, Head(ingests[1].buffered))]
    /\ ingests' = [ingests EXCEPT ![1].buffered = Tail(@)]
    /\ UNCHANGED <<buildVars, index, request, response, COLOR_STATE_MAP, workbooks, callers, conversations>>

\* The `with` block ends: the rest of the buffer reaches the file, which is closed
WriteClose ==
    /\ ingests[1].pc = "open"
    /\ disk' = [disk EXCEPT ![Head(ingests[1].todo)] = @ \o ingests[1].buffered]
    /\ ingests' = [ingests EXCEPT ![1].pc = "next", ![1].buffered = <<>>,
                                   ![1].todo = Tail(@),
                                   ![1].written = @ \cup {Head(ingests[1].todo)}]
    /\ UNCHANGED <<buildVars, index, request, response, COLOR_STATE_MAP, workbooks, callers, conversations>>

\* write_schemas has written the last document: the compile run ends
WriteReturn ==
    /\ ingests[1].pc = "next"
    /\ ingests[1].todo = <<>>
    /\ ingests' = [ingests EXCEPT ![1].pc = "done"]
    /\ UNCHANGED <<buildVars, disk, index, request, response, COLOR_STATE_MAP, workbooks,
                   callers, conversations>>

\* A reader (load_schema of validate_payload, or Corridor.schema) opens the
\* document of a corridor and parses the text the file holds at that moment
ReadDocument ==
    /\ request = NoCall
    /\ \E key \in DOMAIN disk, reader \in {"load_schema", "Corridor.schema"} :
         /\ request' = [op |-> reader, key |-> key]
         /\ response' = [op |-> reader, text |-> disk[key]] @@ json_load(disk[key])
    /\ UNCHANGED <<buildVars, disk, index, ingestVars, callers, conversations>>

NextRecompile == WriteOpen \/ WriteFlush \/ WriteClose \/ WriteReturn \/ ReadDocument

SpecRecompile == InitRecompile /\ [][NextRecompile]_vars

DocumentRead == request # NoCall /\ request.op \in {"load_schema", "Corridor.schema"}

\* C17: whatever the interleaving of a re-compile with readers, every read of a
\* corridor's document gets a complete document of one compile run, the
\* previous or the new one, never an empty, cut or mixed text; and when the
\* re-compile has ended the document of every corridor it wrote is the new one.
C17_ReadsSeeCompleteDocuments ==
    /\ DocumentRead =>
          /\ response.raised = None
          /\ response.run \in {PreviousRun, NewRun}
          /\ response.text \in {json_dump(PreviousRun), json_dump(NewRun)}
    /\ (ingests # <<>> /\ ingests[1].pc = "done") =>
          \A key \in DOMAIN disk :
              disk[key] = IF key \in ingests[1].written THEN json_dump(NewRun)
                          ELSE json_dump(PreviousRun)

\* ------------------------------------------------ concurrent callers (query)

MaxCallers == 2

\* The name of a schema file as the validator spells it
FileKey(f) ==
    CASE f = <<Cur_USD, Country_US>> -> <<"USD", "UNITED STATES">>
      [] f = <<Cur_USD, Country_Thailand>> -> <<"USD", "THAILAND">>

\* The directory as load_schema reads it
DiskView(dsk) ==
    [k \in { FileKey(f) : f \in DOMAIN dsk } |->
        dsk[CHOOSE f \in DOMAIN dsk : FileKey(f) = k]]

\* The calls the callers make
Calls ==
    { [op |-> "resolve", query |-> Query_USD_EUR],
      [op |-> "resolve_pair", query |-> Query_USD_EUR],
      [op |-> "validate", payload |-> EmptyMap, method |-> "WALLET", channel |-> "swift"],
      [op |-> "select", method |-> "WALLET", channel |-> "wire"] }

\* The result of a resolve or resolve_pair call on an index
ResolveResult(call, idx) ==
    CHOOSE r \in { [corridors |-> IF call.op = "resolve" THEN resolved
                                  ELSE ComparisonFrom(resolved, call.query, 2).selected] :
                     resolved \in { resolve_corridors(idx, call.query) } } : TRUE

\* The result of a validate_payload call, or of the two selector calls, on the
\* documents of the directory
DocumentResult(call, dsk) ==
    IF call.op = "validate"
    THEN validate_payload(DiskView(dsk), call.payload, "USD", "UNITED STATES", call.method,
                          call.channel)
    ELSE LET m == select_method(SchemaMethods(DiskView(dsk)[SelKey]), call.method)
         IN  [method |-> m,
              channel |-> IF m.found
                          THEN select_channel(DiskView(dsk)[SelKey].payout_methods.val[m.name],
                                              call.channel)
                          ELSE NotSelected]

\* Some callers have entered their calls at once; the cache of the index is
\* empty and the directory holds the documents of a compile run
InitCallers ==
    /\ \E files \in { {<<Cur_USD, Country_US>>},
                      {<<Cur_USD, Country_US>>, <<Cur_USD, Country_Thailand>>} } :
         disk = [f \in files |->
                   SelDocument(TRUE, <<"bank", "wallet">>, <<"local", "wire">>, "local")]
    /\ \E n \in 1..MaxCallers : \E calls \in [1..n -> Calls] :
         callers = [c \in 1..n |->
                      [call |-> calls[c], pc |-> "call", idx |-> NotBuilt, result |-> NoCall]]
    /\ conversations = EmptyMap
    /\ corridors = EmptyDict
    /\ nrows = 0
    /\ declared = {}
    /\ final = NotReturned
    /\ index = NotBuilt
    /\ request = NoCall
    /\ response = NoCall
    /\ NoIngest

CallerLookup_forgetting ==
    \E c \in DOMAIN callers :
        /\ callers[c].pc = "call"
        /\ callers[c].call.op \in {"resolve", "resolve_pair"}
        /\ callers' = [callers EXCEPT
                         ![c].pc = IF index.built THEN "compute" ELSE "build",
                         ![c].idx = index]
        /\ index' = NotBuilt
        /\ UNCHANGED <<buildVars, disk, request, response, ingestVars, conversations>>

\* A caller enters _corridor_index: the lru_cache wrapper returns the cached
\* index, or finds the cache empty and goes on to call the function
CallerLookup ==
    \E c \in DOMAIN callers :
        /\ callers[c].pc = "call"
        /\ callers[c].call.op \in {"resolve", "resolve_pair"}
        /\ callers' = [callers EXCEPT
                         ![c].pc = IF index.built THEN "compute" ELSE "build",
                         ![c].idx = index]
        /\ UNCHANGED <<buildVars, disk, index, request, response, ingestVars, conversations>>

\* A caller that missed the cache builds the index from the files glob yields;
\* the wrapper stores it unless another caller has stored one meanwhile, and
\* returns the one the caller has built
CallerBuild ==
    \E c \in DOMAIN callers :
        /\ callers[c].pc = "build"
        /\ \E files \in GlobOrders(disk) :
             \E built \in { [built |-> TRUE] @@ corridor_index(files) } :
                /\ callers' = [callers EXCEPT ![c].pc = "compute", ![c].idx = built]
                /\ index' = IF index.built THEN index ELSE built
        /\ UNCHANGED <<buildVars, disk, request, response, ingestVars, conversations>>

\* The rest of _resolve_corridors / _select_comparison_corridors on the index
\* the caller has got
CallerCompute ==
    \E c \in DOMAIN callers :
        /\ callers[c].pc = "compute"
        /\ callers' = [callers EXCEPT
                         ![c].pc = "done",
                         ![c].result = ResolveResult(callers[c].call, callers[c].idx)]
        /\ UNCHANGED <<buildVars, disk, index, request, response, ingestVars, conversations>>

\* A call of validate_payload, or of the selectors on a loaded document
CallerValidate ==
    \E c \in DOMAIN callers :
        /\ callers[c].pc = "call"
        /\ callers[c].call.op \in {"validate", "select"}
        /\ callers' = [callers EXCEPT
                         ![c].pc = "done",
                         ![c].result = DocumentResult(callers[c].call, disk)]
        /\ UNCHANGED <<buildVars, disk, index, request, response, ingestVars, conversations>>

NextCallers == CallerLookup \/ CallerBuild \/ CallerCompute \/ CallerValidate

SpecCallers == InitCallers /\ [][NextCallers]_vars

\* The results a call gives when it runs alone on the documents of the directory
AloneResults(call) ==
    IF call.op \in {"resolve", "resolve_pair"}
    THEN { ResolveResult(call, [built |-> TRUE] @@ corridor_index(files)) :
             files \in GlobOrders(disk) }
    ELSE { DocumentResult(call, disk) }

\* C19: in every interleaving of concurrent resolve, resolve_pair, select and
\* validate_payload calls, callers racing to build the index included, every
\* call returns a result it gives when run alone on the same documents; no step
\* changes a schema document, and no step changes an index once it is cached.
C19_CallersDoNotInterfere ==
    /\ [](\A c \in DOMAIN callers :
            callers[c].pc = "done" => callers[c].result \in AloneResults(callers[c].call))
    /\ [][disk' = disk /\ (index.built => index' = index)]_vars

\* C19 (witness): two resolving callers missed the empty cache, each built the
\* index from the files in another order, and both calls have returned.
C19_Witness ==
    /\ Len(callers) = 2
    /\ \A c \in DOMAIN callers : callers[c].pc = "done"
    /\ index.built
    /\ callers[1].call.op \in {"resolve", "resolve_pair"}
    /\ callers[2].call.op \in {"resolve", "resolve_pair"}
    /\ callers[1].idx.built /\ callers[2].idx.built
    /\ callers[1].idx.val[Cur_USD] # callers[2].idx.val[Cur_USD]

\* ------------------------------------- the verdict of a bucket (compile)

\* The texts of the cells of a column group: empty, a mandatory word, a
\* conditional phrase, a "must" sentence, a plain description
BucketTexts ==
    { <<>>,
      <<"M", "a", "n", "d", "a", "t", "o", "r", "y">>,
      <<"R", "e", "q", "u", "i", "r", "e", "d", " ", "i", "f", " ", "r", "e", "s", "i", "d", "e", "n", "t">>,
      <<"m", "u", "s", "t", " ", "b", "e", " ", "8", " ", "d", "i", "g", "i", "t", "s">>,
      <<"A", "c", "c", "o", "u", "n", "t", " ", "n", "u", "m", "b", "e", "r">> }

\* The fills of the cells: none, the legend's mandatory and conditional colours
BucketFills == { NoFill, Cell("solid", Green), Cell("solid", Orange) }

BucketCells == [value : BucketTexts, fill : BucketFills]

\* extract_matrix_records starts on a matrix sheet with one field row; in the
\* second corridor (base channel wire) the first and the third sub-column fall
\* in one bucket
InitBucket ==
    /\ \E worksheet \in BOOLEAN, fill \in BucketFills, first \in BucketCells,
          third \in BucketCells :
            workbooks = << [name |-> <<"B", "a", "n", "k">>, method |-> "bank",
                            worksheet |-> worksheet, corridor_names |-> MatrixCorridors,
                            keys |-> MatrixKeys,
                            rows |-> << [field |-> <<"I", "B", "A", "N">>,
                                         alias |-> <<"b", "e", "n", "e", "f", "i", "c", "i", "a", "r", "y", "_", "i", "b", "a", "n">>,
                                         fill |-> fill,
                                         cells |-> <<OneBucket,
                                                     <<first, [value |-> <<>>, fill |-> NoFill],
                                                       third>> >>] >>] >>
    /\ ingests = << [pc |-> "rows", row |-> 0, records |-> <<>>] >>
    /\ COLOR_STATE_MAP = LegendOf(CHOOSE rows \in LegendRows : rows[1].color = Green)
    /\ corridors = EmptyDict
    /\ nrows = 0
    /\ declared = {}
    /\ final = NotReturned
    /\ disk = EmptyMap
    /\ index = NotBuilt
    /\ request = NoCall
    /\ response = NoCall
    /\ callers = <<>>
    /\ conversations = EmptyMap

SpecBucket == InitBucket /\ [][NextMatrix]_vars

\* The sub-columns of the record's bucket that hold a non-empty cell
BucketColumns(rec) ==
    { j \in DOMAIN MatrixKeys :
        /\ CleanedCells(rec.row, rec.corridor)[j] # <<>>
        /\ resolve_channel(MatrixKeys[j], BaseChannel(rec.corridor)) = rec.record.Channel }

\* The verdict of the colour of the cell j of the record's column group (no
\* verdict without a styled worksheet)
ColumnColor(rec, j) ==
    IF workbooks[1].worksheet
    THEN mandatory_state_from_color(workbooks[1].rows[rec.row].cells[rec.corridor][j].fill)
    ELSE ""

\* The verdict of the colour of the Field cell of the record's row
FieldColor(rec) ==
    IF workbooks[1].worksheet
    THEN mandatory_state_from_color(workbooks[1].rows[rec.row].fill)
    ELSE ""

\* The verdict of the literal text of the cell j of the record's column group
ColumnText(rec, j) ==
    mandatory_state_from_text(workbooks[1].rows[rec.row].cells[rec.corridor][j].value)

\* A cell of the bucket, or the Field cell, is coloured mandatory
ColourMandatory(rec) ==
    \/ FieldColor(rec) = "mandatory"
    \/ \E j \in BucketColumns(rec) : ColumnColor(rec, j) = "mandatory"

\* A cell of the bucket gave a conditional verdict, by its colour or by its text
BucketConditional(rec) ==
    \E j \in BucketColumns(rec) :
        ColumnColor(rec, j) = "conditional" \/ ColumnText(rec, j) = "conditional"

\* C21 (as claimed): a bucket that received a conditional verdict from the colour
\* or the text of one of its cells, and no colour-mandatory signal, does not end
\* mandatory, whatever mandatory text its cells hold, before or after.
C21_ConditionalNotOverwrittenByText ==
    MatrixRun =>
        \A i \in DOMAIN ingests[1].records :
            LET rec == ingests[1].records[i]
            IN  (BucketConditional(rec) /\ ~ColourMandatory(rec))
                    => rec.record.Mandatory # "mandatory"

\* A cell of the bucket holds explicit conditional text: a conditional phrase, or
\* a "must" sentence that is not a mandatory phrase
ConditionalText(rec) ==
    \E j \in BucketColumns(rec) :
        \/ ColumnText(rec, j) = "conditional"
        \/ /\ ColumnText(rec, j) # "mandatory"
           /\ Contains(Lower(CleanedCells(rec.row, rec.corridor)[j]), <<"m", "u", "s", "t">>)

\* A cell of the bucket, or the Field cell, is coloured conditional
ColourConditional(rec) ==
    \/ FieldColor(rec) = "conditional"
    \/ \E j \in BucketColumns(rec) : ColumnColor(rec, j) = "conditional"

\* The description/notes text of a cell of the bucket reads as mandatory
DerivedMandatory(rec) ==
    \E j \in BucketColumns(rec) : ColumnText(rec, j) = "mandatory"

\* The state the precedence chain gives the bucket
ChainState(rec) ==
    IF ColourMandatory(rec) THEN "mandatory"
    ELSE IF ConditionalText(rec) THEN "conditional"
    ELSE IF ColourConditional(rec) THEN "conditional"
    ELSE IF DerivedMandatory(rec) THEN "mandatory"
    ELSE "optional"

\* C22 (as claimed): the final requirement state of every bucket is the one of the
\* strongest signal present, in the order colour-mandatory (Field cell or column
\* cell), explicit conditional text, colour-conditional, mandatory derived from
\* the description/notes text, optional.
C22_PrecedenceChain ==
    MatrixRun =>
        \A i \in DOMAIN ingests[1].records :
            ingests[1].records[i].record.state = ChainState(ingests[1].records[i])

\* ------------------------------------- the default channel (compile pass)

\* Rows of one corridor naming a method of the table, in upper case, or another
\* method, and a channel or none
MethodRows ==
    { [row EXCEPT !.Method = method, !.Channel = channel] :
        row \in RowsOf({FieldA}, {"mandatory"}, {""}, {""}, {""}, {<<>>}, {""}),
        method \in {"bank", "WALLET", "crypto"},
        channel \in {"", "ach", "default", "Wire"} }

\* One iteration of `for _, row in df.iterrows()` of build_schemas on a row
\* that names its method
FoldMethodRow ==
    /\ ~final.returned
    /\ nrows < MaxRows
    /\ \E row \in MethodRows :
         /\ corridors' = FoldOne(corridors, row)
         /\ declared' =
              declared \cup {<<<<RowCurrency(row), RowCountry(row)>>, RowMethod(row),
                               RowChannel(row), FieldPath(Strip(row.Field))>>}
    /\ nrows' = nrows + 1
    /\ UNCHANGED <<final, disk, index, request, response, ingestVars, callers, conversations>>

NextDefault == FoldMethodRow \/ BuildReturn

SpecDefault == InitBuild /\ [][NextDefault]_vars

\* The payout methods of the returned documents, each with its document
ReturnedMethods ==
    { <<k, m>> \in (DOMAIN final.docs) \X {"bank", "wallet", "crypto"} :
        m \in DOMAIN final.docs[k].payout_methods.val }

\* C23 (as claimed): default_channel of every method of every document is one of
\* the method's channels: local for bank and the generic default for every other
\* method when the method has that channel, else the first channel in sorted order.
C23_DefaultChannelAsClaimed ==
    final.returned =>
        \A t \in ReturnedMethods :
            LET block == final.docs[t[1]].payout_methods.val[t[2]]
                convention == IF t[2] = "bank" THEN "local" ELSE "default"
            IN  /\ block.default_channel \in SeqToSet(block.channels.keys)
                /\ block.default_channel =
                     IF convention \in SeqToSet(block.channels.keys) THEN convention
                     ELSE block.channels.keys[1]

\* C23: default_channel of every method of every document is one of the method's
\* channels: for a method of the table DEFAULT_CHANNEL_BY_METHOD its convention
\* channel (bank: local, wallet, proxy, card, cash: default) when the method has
\* that channel, and in every other case (the convention channel is missing, or
\* the method is not in the table) the first channel in sorted order.
C23_DefaultChannel ==
    final.returned =>
        \A t \in ReturnedMethods :
            LET block == final.docs[t[1]].payout_methods.val[t[2]]
                names == block.channels.keys
                in_table == t[2] \in {"bank", "wallet", "proxy", "card", "cash"}
                convention == IF t[2] = "bank" THEN "local" ELSE "default"
            IN  /\ names # <<>>
                /\ \A i \in DOMAIN names, j \in DOMAIN names :
                      i < j => \E h \in DOMAIN ChannelNames, g \in DOMAIN ChannelNames :
                                  h < g /\ ChannelNames[h] = names[i] /\ ChannelNames[g] = names[j]
                /\ block.default_channel \in SeqToSet(names)
                /\ block.default_channel =
                     IF in_table /\ convention \in SeqToSet(names) THEN convention
                     ELSE names[1]

\* C23 (witness): build_schemas returned a document with a method whose
\* convention channel is not its first channel in sorted order and a method
\* without its convention channel.
C23_Witness ==
    /\ final.returned
    /\ \E t \in ReturnedMethods :
          LET block == final.docs[t[1]].payout_methods.val[t[2]]
          IN  t[2] = "wallet" /\ block.channels.keys = <<"ach", "default">>
              /\ block.default_channel = "default"
    /\ \E t \in ReturnedMethods :
          LET block == final.docs[t[1]].payout_methods.val[t[2]]
          IN  t[2] = "bank" /\ "local" \notin SeqToSet(block.channels.keys)
              /\ block.default_channel = "wire"

\* ------------------------------------------- scoring (query time)

\* "USD payout to united states"
Query_USD_to_US == <<"U", "S", "D", " ", "p", "a", "y", "o", "u", "t", " ", "t", "o", " ", "u", "n", "i", "t", "e", "d", " ", "s", "t", "a", "t", "e", "s">>

\* "send usd to germany"
Query_usd_Germany == <<"s", "e", "n", "d", " ", "u", "s", "d", " ", "t", "o", " ", "g", "e", "r", "m", "a", "n", "y">>

ScoreQueries == { Query_USD_US, Query_USD_to_US, Query_usd_Germany, Query_Germany }

\* One call of _resolve_corridors on the cached index, with the scores it gave
ResolveScored ==
    /\ index.built
    /\ request = NoCall
    /\ \E query \in ScoreQueries :
         /\ request' = [op |-> "resolve", query |-> query]
         /\ \E ranked \in { ScoredCandidates(index, query) } :
              response' = [op |-> "resolve", ranked |-> ranked,
                           result |-> [i \in DOMAIN ranked |-> ranked[i].corridor]]
    /\ UNCHANGED <<buildVars, disk, index, ingestVars, callers, conversations>>

NextScore == BuildIndex \/ ResolveScored

SpecScore == InitResolve /\ [][NextScore]_vars

\* The corridors of the index
AllCorridors ==
    UNION { SeqToSet(index.val[code]) : code \in DOMAIN index.val }

\* The words of three capital letters that the query holds as it was typed
LiteralCodes == CurrencyCodes(request.query)

\* 1 when the condition holds, else 0
Bracket(condition) == IF condition THEN 1 ELSE 0

\* The score the scoring rule gives a corridor, each bonus counted once
ClaimedScore(corridor, normalized) ==
    LET aliases == corridor_aliases(corridor)
    IN  6 * Bracket(Contains(normalized, Lower(corridor.country)))
        + 5 * Bracket(aliases \cap tokenize(normalized) # {})
        + 4 * Bracket(\E alias \in aliases : Contains(Condensed(normalized), alias))
        + 6 * Bracket(\E alias \in aliases : Contains(normalized, ToAlias(alias)))

\* C24 (as claimed): when a currency code of the query has corridors in the
\* index, the scored corridors are those of the currencies the query names, and
\* each has the score 6 (country name in the query) + 5 (an alias is a token) +
\* 4 (an alias is in the query without spaces) + 6 (the phrase "to <alias>"
\* occurs for some alias), each counted at most once, hence at most 21.
C24_ScoreAsClaimed ==
    (request # NoCall /\ request.op = "resolve"
     /\ \E c \in AllCorridors : c.currency \in LiteralCodes) =>
        /\ { response.ranked[i].corridor : i \in DOMAIN response.ranked }
             = { c \in AllCorridors : c.currency \in LiteralCodes }
        /\ \A i \in DOMAIN response.ranked :
             /\ response.ranked[i].score
                  = ClaimedScore(response.ranked[i].corridor, Lower(request.query))
             /\ response.ranked[i].score <= 21

\* C25 (as claimed): when the query holds no word of three capital letters, the
\* result is the fallback: the corridors of the whole index one of whose aliases
\* is a token of the query or occurs in the query without spaces, each with the
\* score 6, or 16 when the country name occurs in the query; the scoring by
\* currency is used only when such a code is in the query as typed.
C25_FallbackAsClaimed ==
    (request # NoCall /\ request.op = "resolve" /\ LiteralCodes = {}) =>
        LET normalized == Lower(request.query)
            Matches(c) ==
                \E alias \in corridor_aliases(c) :
                    \/ Contains(Condensed(normalized), alias)
                    \/ alias \in tokenize(normalized)
        IN  /\ { response.ranked[i].corridor : i \in DOMAIN response.ranked }
                 = { c \in AllCorridors : Matches(c) }
            /\ \A i \in DOMAIN response.ranked :
                 response.ranked[i].score =
                    IF Contains(normalized, Lower(response.ranked[i].corridor.country))
                    THEN 16 ELSE 6

\* ------------------------------------- comparison selection (query time)

\* Bound: the number of corridors asked for
MaxCount == 2

\* One call of _select_comparison_corridors(query, count) on the cached index
ResolveCount ==
    /\ index.built
    /\ request = NoCall
    /\ \E query \in Queries, count \in 1..MaxCount :
         /\ request' = [op |-> "resolve_pair", query |-> query, count |-> count]
         /\ \E resolved \in { resolve_corridors(index, query) } :
              \E choice \in { ComparisonFrom(resolved, query, count) } :
                 response' = [op |-> "resolve_pair", resolved |-> resolved,
                              picks |-> choice.picks, result |-> choice.selected]
    /\ UNCHANGED <<buildVars, disk, index, ingestVars, callers, conversations>>

NextCount == BuildIndex \/ ResolveCount

SpecCount == InitResolve /\ [][NextCount]_vars

\* The first n elements of a sequence (all of them when it has fewer)
FirstN(s, n) == SubSeq(s, 1, IF Len(s) < n THEN Len(s) ELSE n)

\* C26: the call returns at most `count` corridors, none twice; the corridors
\* chosen by currency code come first, one per code, in the order the codes occur
\* in the query, each of the currency of its code, and they are at most `count`;
\* when they are fewer than `count`, every code chose as long as a corridor of
\* its currency was left, and the result goes on with the corridors of the
\* single-query ranked list that were not chosen, in rank order; the result is
\* empty when the single-query resolution is empty.
C26_PairAtMostCountNoRepeat ==
    (request # NoCall /\ request.op = "resolve_pair") =>
        LET result == response.result
            picks == response.picks
            resolved == response.resolved
            count == request.count
            codes == ordered_currency_codes(request.query)
            chosen == [k \in DOMAIN picks |-> picks[k].chosen]
            NotChosen(c) == c \notin SeqToSet(chosen)
        IN  /\ Len(result) <= count
            /\ \A i, j \in DOMAIN result : i # j => result[i] # result[j]
            /\ resolved = <<>> => result = <<>>
            /\ Len(picks) <= count
            /\ \A k \in DOMAIN picks :
                 /\ picks[k].chosen.currency = picks[k].code
                 /\ picks[k].chosen \in SeqToSet(resolved)
            /\ \E at \in [DOMAIN picks -> DOMAIN codes] :
                 /\ \A k \in DOMAIN picks : codes[at[k]] = picks[k].code
                 /\ \A k, h \in DOMAIN picks : k < h => at[k] < at[h]
            /\ Len(picks) < count =>
                 \A code \in SeqToSet(codes) :
                    LET asked == Cardinality({ i \in DOMAIN codes : codes[i] = code })
                        there == Cardinality({ c \in SeqToSet(resolved) : c.currency = code })
                    IN  Cardinality({ k \in DOMAIN picks : picks[k].code = code })
                          = IF asked < there THEN asked ELSE there
            /\ result = FirstN(chosen \o SelectSeq(resolved, NotChosen), count)

\* C26 (witness): a call for two corridors whose query holds one code chose one
\* corridor by the code and took the second from the ranked list, which holds
\* more corridors than were asked for.
C26_Witness ==
    /\ request # NoCall /\ request.op = "resolve_pair"
    /\ request.count = 2
    /\ Len(response.picks) = 1
    /\ Len(response.result) = 2
    /\ Len(response.resolved) > 2
    /\ response.result[2] # response.picks[1].chosen

\* ------------------------------------ the two selectors (query time)

\* The method and the channel a pair of selectors picks on the document
PickedBy(m, c) ==
    [found |-> m.found /\ c.found,
     method |-> IF m.found THEN m.name ELSE None,
     channel |-> IF m.found /\ c.found THEN c.name ELSE None]

\* The same hints given to the selectors of the validator (validate_payload) and
\* to those of the lookup (answer_required_fields_query) on the same document
SelectBoth ==
    /\ request = NoCall
    /\ \E method \in MethodHints, channel \in ChannelHints :
         /\ request' = [op |-> "select_both", method |-> method, channel |-> channel]
         /\ \E v \in { select_method(SchemaMethods(SelDoc), method) },
               l \in { lookup_select_method(SchemaMethods(SelDoc), method) } :
              response' =
                [op |-> "select_both",
                 validator |->
                    PickedBy(v, IF v.found
                                THEN select_channel(SelDoc.payout_methods.val[v.name], channel)
                                ELSE NotSelected),
                 lookup |->
                    PickedBy(l, IF l.found
                                THEN lookup_select_channel(SelDoc.payout_methods.val[l.name],
                                                           channel)
                                ELSE NotSelected)]
    /\ UNCHANGED <<buildVars, disk, index, ingestVars, callers, conversations>>

NextAgree == SelectBoth

SpecAgree == InitSelect /\ [][NextAgree]_vars

\* C28 (as claimed): for every document and every method hint and channel hint,
\* the selectors of the lookup pick the same method name and channel name as
\* the selectors of the validator.
C28_SelectorsAgree ==
    (request # NoCall /\ request.op = "select_both") =>
        response.lookup = response.validator

\* --------------------------------------- successive compile runs

\* Bound: the number of compile runs on the schema directory
MaxRuns == 2

\* The rows of the merged frames: rows of two corridors, and a row without country
RunRows ==
    { [row EXCEPT !.Currency = place[1], !.Country = place[2]] :
        row \in RowsOf({FieldA, FieldB}, {"mandatory"}, {""}, {""}, {""}, {<<>>}, {""}),
        place \in { <<"usd", "united states">>, <<"eur", "germany">>, <<"usd", " ">> } }

\* The merged frames of a workbook: up to MaxRows rows
RunFrames == UNION { [1..n -> RunRows] : n \in 1..MaxRows }

\* The corridors that have a row build_schemas does not skip
UsableCorridors(rows) ==
    { <<RowCurrency(rows[i]), RowCountry(rows[i])>> :
        i \in { j \in DOMAIN rows : ~RowSkipped(rows[j]) } }

\* What a run of ingest compiles from its frames
CompiledRuns ==
    { [pc |-> "done", usable |-> UsableCorridors(rows), docs |-> build_schemas(rows)] :
        rows \in RunFrames }

\* The file of a corridor as glob yields it
FileName(k) ==
    CASE k = <<"USD", "UNITED STATES">> -> <<Cur_USD, Country_US>>
      [] k = <<"EUR", "GERMANY">> -> <<Cur_EUR, Country_Germany>>

\* No run yet: the schema directory is empty
InitRuns ==
    /\ disk = EmptyMap
    /\ ingests = <<>>
    /\ workbooks = <<>>
    /\ COLOR_STATE_MAP = EmptyMap
    /\ corridors = EmptyDict
    /\ nrows = 0
    /\ declared = {}
    /\ final = NotReturned
    /\ index = NotBuilt
    /\ request = NoCall
    /\ response = NoCall
    /\ callers = <<>>
    /\ conversations = EmptyMap

\* One run of ingest from build_schemas(merged) on: the documents are written
\* into the directory
CompileRun ==
    /\ Len(ingests) < MaxRuns
    /\ ~index.built
    /\ request = NoCall
    /\ \E run \in CompiledRuns :
         /\ final' = [returned |-> TRUE, docs |-> run.docs]
         /\ disk' = write_schemas(run.docs, disk)
         /\ ingests' = Append(ingests, run)
    /\ UNCHANGED <<corridors, nrows, declared, index, request, response, COLOR_STATE_MAP,
                   workbooks, callers, conversations>>

\* The service starts after the runs: the first call of _corridor_index
IndexAfterRuns ==
    /\ ingests # <<>>
    /\ ~index.built
    /\ \E files \in GlobOrders([f \in { FileName(k) : k \in DOMAIN disk } |-> None]) :
         index' = [built |-> TRUE] @@ corridor_index(files)
    /\ UNCHANGED <<buildVars, disk, request, response, ingestVars, callers, conversations>>

\* One call of load_schema after the runs
LoadAfterRuns ==
    /\ ingests # <<>>
    /\ request = NoCall
    /\ \E place \in { <<"usd", "united states">>, <<"EUR", "GERMANY">> } :
         /\ request' = [op |-> "load", currency |-> place[1], country |-> place[2]]
         /\ LET loaded == load_schema(disk, place[1], place[2])
            IN  response' = [op |-> "load", raised |-> loaded.raised, path |-> loaded.path,
                             document |-> IF loaded.raised = None THEN disk[loaded.path]
                                          ELSE None]
    /\ UNCHANGED <<buildVars, disk, index, ingestVars, callers, conversations>>

NextRuns == CompileRun \/ IndexAfterRuns \/ LoadAfterRuns

SpecRuns == InitRuns /\ [][NextRuns]_vars

\* The runs that wrote a document of the corridor k
RunsOf(k) == { i \in DOMAIN ingests : k \in DOMAIN ingests[i].docs }

\* The document of the corridor k from the latest run that included it
LatestDocument(k) ==
    ingests[CHOOSE i \in RunsOf(k) : \A j \in RunsOf(k) : j <= i].docs[k]

\* C29: a compile run writes the documents of the corridors that have a usable
\* row in its frames and leaves every other document of the directory as it
\* was; so the directory holds one document per corridor of any run, with the
\* content of the latest run that included the corridor, and every such
\* corridor is in an index built afterwards and is loaded by load_schema.
C29_RunsKeepOtherDocuments ==
    /\ [](/\ \A i \in DOMAIN ingests : DOMAIN ingests[i].docs = ingests[i].usable
          /\ DOMAIN disk = UNION { ingests[i].usable : i \in DOMAIN ingests }
          /\ \A k \in DOMAIN disk : disk[k] = LatestDocument(k)
          /\ index.built => IndexCorridors(index) =
                              { [currency |-> FileName(k)[1], country |-> FileName(k)[2]] :
                                  k \in DOMAIN disk }
          /\ (request # NoCall /\ request.op = "load") =>
                /\ response.raised = None <=> response.path \in DOMAIN disk
                /\ response.raised = None => response.document = LatestDocument(response.path))
    /\ [][ingests' # ingests =>
            \A k \in DOMAIN disk :
                /\ k \in DOMAIN disk'
                /\ k \notin Last(ingests').usable => disk'[k] = disk[k]]_vars

\* C29 (witness): after two runs, the second without a corridor of the first and
\* with another content for a corridor of both, the corridor left out is
\* loaded with the document of the first run.
C29_Witness ==
    /\ Len(ingests) = 2
    /\ request # NoCall /\ request.op = "load"
    /\ response.raised = None
    /\ response.path \in ingests[1].usable
    /\ response.path \notin ingests[2].usable
    /\ response.document = ingests[1].docs[response.path]
    /\ \E k \in ingests[1].usable \cap ingests[2].usable :
          ingests[1].docs[k] # ingests[2].docs[k] /\ disk[k] = ingests[2].docs[k]

\* --------------------------------------- the conversation store (threads)

\* Bound: ConversationStore(max_conversations_per_client), 10 by default
max_conversations_per_client == 2

\* Bound: the requests served, each by a thread of the pool
MaxThreads == 3

ClientIds == {"alice", "bob"}

\* POST /conversations and DELETE /conversations/{conversation_id} with the
\* X-Client-Id header; the conversation a thread creates has the thread's number as id
StoreCalls ==
    { [op |-> "create", client_id |-> c, conversation_id |-> 0] : c \in ClientIds }
    \cup { [op |-> "delete", client_id |-> c, conversation_id |-> i] :
             c \in ClientIds, i \in 1..MaxThreads }

\* ConversationStore(): no client; `dicts` are the inner dicts, by the number of
\* the thread that made them
EmptyStore == [keys |-> EmptyMap, dicts |-> EmptyMap]

\* self._conversations.get(client_id, {}): the conversations of a client
Stored(store, client_id) ==
    IF client_id \in DOMAIN store.keys THEN store.dicts[store.keys[client_id]] ELSE {}

\* The inner dict a thread holds: 0 is the dict `{}` made for a missing client
Held(store, dict) == IF dict = 0 THEN {} ELSE store.dicts[dict]

InitStore ==
    /\ conversations = EmptyStore
    /\ callers = <<>>
    /\ disk = EmptyMap
    /\ corridors = EmptyDict
    /\ nrows = 0
    /\ declared = {}
    /\ final = NotReturned
    /\ index = NotBuilt
    /\ request = NoCall
    /\ response = NoCall
    /\ NoIngest

\* A request arrives and a thread of the pool enters the endpoint; the client
\* ids of the pool pass _validate_client_id
RequestArrives ==
    /\ Len(callers) < MaxThreads
    /\ \E call \in StoreCalls :
         callers' = Append(callers, [call |-> call, pc |-> call.op, dict |-> 0,
                                     result |-> NoCall])
    /\ UNCHANGED <<buildVars, disk, index, request, response, ingestVars, conversations>>

\* create_conversation, `if client_id not in self._conversations:`
CreateTestsClient ==
    \E t \in DOMAIN callers :
        /\ callers[t].pc = "create"
        /\ callers' = [callers EXCEPT
                         ![t].pc = IF callers[t].call.client_id \in DOMAIN conversations.keys
                                   THEN "limit" ELSE "new_client"]
        /\ UNCHANGED <<buildVars, disk, index, request, response, ingestVars, conversations>>

\* create_conversation, `self._conversations[client_id] = {}`
CreateAddsClient ==
    \E t \in DOMAIN callers :
        /\ callers[t].pc = "new_client"
        /\ conversations' = [keys |-> Put(conversations.keys, callers[t].call.client_id, t),
                             dicts |-> Put(conversations.dicts, t, {})]
        /\ callers' = [callers EXCEPT ![t].pc = "limit"]
        /\ UNCHANGED <<buildVars, disk, index, request, response, ingestVars>>

\* create_conversation, the limit check: ValueError, which the endpoint turns
\* into the status 400, or on to the insertion
CreateChecksLimit ==
    \E t \in DOMAIN callers :
        /\ callers[t].pc = "limit"
        /\ callers' = [callers EXCEPT ![t] =
                         IF Cardinality(Stored(conversations, callers[t].call.client_id))
                              >= max_conversations_per_client
                         THEN [@ EXCEPT !.pc = "done", !.result = [status |-> 400]]
                         ELSE [@ EXCEPT !.pc = "insert"]]
        /\ UNCHANGED <<buildVars, disk, index, request, response, ingestVars, conversations>>

\* create_conversation, `self._conversations[client_id][conversation.id] = conversation`
CreateInserts ==
    \E t \in DOMAIN callers :
        /\ callers[t].pc = "insert"
        /\ \E dict \in { conversations.keys[callers[t].call.client_id] } :
             conversations' = [conversations EXCEPT
                                 !.dicts[dict] = conversations.dicts[dict] \cup {t}]
        /\ callers' = [callers EXCEPT ![t].pc = "done",
                                      ![t].result = [status |-> 200, id |-> t]]
        /\ UNCHANGED <<buildVars, disk, index, request, response, ingestVars>>

\* delete_conversation, `client_conversations = self._conversations.get(client_id, {})`
DeleteGetsClient ==
    \E t \in DOMAIN callers :
        /\ callers[t].pc = "delete"
        /\ callers' = [callers EXCEPT
                         ![t].pc = "test",
                         ![t].dict = IF callers[t].call.client_id \in DOMAIN conversations.keys
                                     THEN conversations.keys[callers[t].call.client_id]
                                     ELSE 0]
        /\ UNCHANGED <<buildVars, disk, index, request, response, ingestVars, conversations>>

\* delete_conversation, `if conversation_id in client_conversations:`; False
\* becomes the status 404
DeleteTests ==
    \E t \in DOMAIN callers :
        /\ callers[t].pc = "test"
        /\ callers' = [callers EXCEPT ![t] =
                         IF callers[t].call.conversation_id
                              \in Held(conversations, callers[t].dict)
                         THEN [@ EXCEPT !.pc = "del"]
                         ELSE [@ EXCEPT !.pc = "done", !.result = [status |-> 404]]]
        /\ UNCHANGED <<buildVars, disk, index, request, response, ingestVars, conversations>>

\* delete_conversation, `del client_conversations[conversation_id]`: KeyError
\* (status 500) when another thread has deleted it since the test
DeleteDeletes ==
    \E t \in DOMAIN callers :
        /\ callers[t].pc = "del"
        /\ IF callers[t].call.conversation_id \in Held(conversations, callers[t].dict)
           THEN /\ conversations' = [conversations EXCEPT
                                       !.dicts[callers[t].dict] =
                                           @ \ {callers[t].call.conversation_id}]
                /\ callers' = [callers EXCEPT ![t].pc = "done",
                                              ![t].result = [status |-> 200]]
           ELSE /\ callers' = [callers EXCEPT ![t].pc = "done",
                                              ![t].result = [status |-> 500]]
                /\ UNCHANGED conversations
        /\ UNCHANGED <<buildVars, disk, index, request, response, ingestVars>>

NextStore ==
    \/ RequestArrives
    \/ CreateTestsClient
    \/ CreateAddsClient
    \/ CreateChecksLimit
    \/ CreateInserts
    \/ DeleteGetsClient
    \/ DeleteTests
    \/ DeleteDeletes

SpecStore == InitStore /\ [][NextStore]_vars

\* The threads that took the step
Stepping == { t \in DOMAIN callers : callers'[t] # callers[t] }

\* C30: in every interleaving of create_conversation and delete_conversation
\* calls no client has more than max_conversations_per_client conversations
\* stored; a create that meets the limit ends with the error and changes no
\* stored conversation, and no conversation is added for a client that is at
\* the limit; the conversations stored for a client change only by a call made
\* with that client id.
C30_LimitAndIsolation ==
    /\ [](\A c \in ClientIds :
            Cardinality(Stored(conversations, c)) <= max_conversations_per_client)
    /\ [][/\ \A c \in ClientIds :
               Stored(conversations', c) # Stored(conversations, c) =>
                   /\ \A t \in Stepping : callers[t].call.client_id = c
                   /\ Cardinality(Stored(conversations', c))
                        > Cardinality(Stored(conversations, c)) =>
                          Cardinality(Stored(conversations, c)) < max_conversations_per_client
          /\ \A t \in Stepping :
               (callers'[t].result = [status |-> 400]) => conversations' = conversations]_vars

=============================================================================
